---- MODULE Spec2Model ----
(***************************************************************************)
(* uacme: the ACME client driver of src/uacme.c as a state machine.         *)
(*                                                                         *)
(* One run of main() is one behaviour.  The program is single-threaded;    *)
(* a step of the model is the stretch of code from one blocking call (an   *)
(* HTTP exchange, a hook subprocess, an operator prompt) to the next.  The *)
(* ACME server, the hook program, the operator and the filesystem are the  *)
(* environment: each step draws their answer from a small set.             *)
(***************************************************************************)
EXTENDS Integers, Sequences, FiniteSets, TLC

\* ------------------------------------------------------------------ bounds
MaxAuths == 2
MaxChlgs == 2
MaxPolls == 2
MaxContacts == 2
MaxLen == 3

\* ------------------------------------------------------- C strings, codes
\* A char* is NULL, the empty string, or a non-empty string.
NULL == "<NULL>"
EMPTY == ""

EXIT_SUCCESS == 0
EXIT_FAILURE == 1

\* HTTP status codes the driver compares against.
HTTP_OK == 200
HTTP_CREATED == 201
HTTP_NO_CONTENT == 204
HTTP_BAD_REQUEST == 400
HTTP_ERROR == 500

\* Content-Type values a response may carry (NULL: no such header).
TYPE_JSON == "application/json"
TYPE_PROBLEM == "application/problem+json"
TYPE_PEM == "application/pem-certificate-chain"

\* URLs.  The directory's entries, and what the server hands out.
URL_DIRECTORY == "https://a/directory"
URL_NEWNONCE == "https://a/new-nonce"
URL_NEWACCOUNT == "https://a/new-acct"
URL_NEWORDER == "https://a/new-order"
URL_REVOKECERT == "https://a/revoke-cert"
URL_TERMS == "https://a/terms"
URL_ACCOUNT == "https://a/acct/1"
URL_ORDER == "https://a/order/1"
URL_FINALIZE == "https://a/fin/1"
URL_CERT == "https://a/c/1"
URL_AUTHZ == "https://a/authz"
URL_CHLG == "https://a/chall"

NONCE == "nonce"
THUMBPRINT == "thumbprint"
IDENT == "example.com"

\* ------------------------------------------------------------------ JSON
\* A parsed JSON object, reduced to the members the driver looks up.  A
\* member that is absent (json_find / json_find_string return NULL) is NULL.
\* A member that is absent, one that is no JSON array, and an array.
Absent == [ present |-> FALSE, array |-> FALSE, values |-> << >> ]
NotArray == [ present |-> TRUE, array |-> FALSE, values |-> << >> ]
Array(vs) == [ present |-> TRUE, array |-> TRUE, values |-> vs ]

\* The "identifier" member of an authorization: absent, or {type, value}.
NoIdent == [ null |-> TRUE, type |-> NULL, value |-> NULL ]
Ident(t, v) == [ null |-> FALSE, type |-> t, value |-> v ]

JsonNone ==
    [ null |-> FALSE, status |-> NULL, error |-> FALSE, type |-> NULL,
      newNonce |-> NULL, newAccount |-> NULL, newOrder |-> NULL,
      revokeCert |-> NULL, termsOfService |-> NULL,
      contact |-> Absent, authorizations |-> Absent, finalize |-> NULL,
      certificate |-> NULL, identifier |-> NoIdent, challenges |-> Absent ]

\* A json_value_t* that is NULL: no body was parsed.
NoJson == [ JsonNone EXCEPT !.null = TRUE ]

\* An array element that is no JSON string.
NOT_STRING == "<not a string>"

\* json_find_string(obj, name): the member as a string, NULL when obj is NULL
\* or the member is absent.
json_find_string(obj, name) ==
    IF obj.null THEN NULL ELSE obj[name]

\* json_compare_string(obj, name, value): 0 when the member is that string,
\* non-zero otherwise (also when it is absent).
json_compare_string(obj, name, value) ==
    IF json_find_string(obj, name) = value THEN 0 ELSE 1

\* strstr(type, "json") != NULL
ContainsJson(type) ==
    type \in {TYPE_JSON, TYPE_PROBLEM}

\* acme_error: the response is an ACME problem document, or carries an
\* "error" object.
acme_error(json, type) ==
    IF json.null THEN FALSE
    ELSE IF type = TYPE_PROBLEM THEN TRUE
    ELSE json.error

\* ------------------------------------------------------------- responses
\* curl_get / curl_post return NULL on a transport failure.
NoResponse == [ transport |-> FALSE ]

\* A response: status code, the values of the Replay-Nonce, Location and
\* Content-Type header lines (NULL: no such line; EMPTY: "Name: \r\n") and
\* the body as json_parse would read it.
Response(code, replay, location, ctype, body) ==
    [ transport |-> TRUE, code |-> code, replay |-> replay,
      location |-> location, ctype |-> ctype, body |-> body ]

\* find_header(headers, name): the text after "name: " on the first such
\* line, NULL when there is none.  An empty value is returned as "".
find_header(resp, name) ==
    resp[name]

ReplayValues == {NULL, EMPTY, NONCE}

\* What acme_get and acme_post leave behind when nothing was received.
NoReply(n, sent) ==
    [ ret |-> 0, nonce |-> n, json |-> NoJson, type |-> EMPTY,
      location |-> NULL, body |-> FALSE, sent |-> sent, hdr |-> "none" ]

\* What they leave behind for a response: the nonce is replaced by the
\* Replay-Nonce header (NULL when there is none), the body is parsed only
\* when the Content-Type contains "json".
Reply(resp, hdr) ==
    LET t == find_header(resp, "ctype")
    IN  [ ret |-> resp.code,
          nonce |-> find_header(resp, "replay"),
          json |-> IF t # NULL /\ ContainsJson(t) THEN resp.body ELSE NoJson,
          type |-> IF t = NULL THEN EMPTY ELSE t,
          location |-> find_header(resp, "location"),
          body |-> TRUE, sent |-> TRUE, hdr |-> hdr ]

\* What the callers of acme_get and acme_post look at in an answer r: the
\* status code, the Content-Type, the Location header, whether a JSON body
\* was parsed, the body's status and type members, the indices of the
\* challenges it lists as pending (from index `from` on), and whether
\* acme_error takes it for an error document.
PendingFrom(json, from) ==
    IF json.null \/ ~json.challenges.array THEN {}
    ELSE { c \in from..(Len(json.challenges.values) - 1) :
             json.challenges.values[c + 1].status = "pending" }
Answer(r) ==
    [ code |-> r.ret, ctype |-> r.type, location |-> r.location,
      parsed |-> ~r.json.null, pending |-> PendingFrom(r.json, 0),
      status |-> json_find_string(r.json, "status"),
      ptype |-> json_find_string(r.json, "type"),
      error |-> acme_error(r.json, r.type) ]
NoAnswer ==
    [ code |-> 0, ctype |-> NULL, location |-> NULL, parsed |-> FALSE,
      pending |-> {},
      status |-> NULL, ptype |-> NULL, error |-> FALSE ]

\* acme_get(a, url) with the server answering resp.
acme_get(n, url, resp) ==
    IF url = NULL THEN NoReply(n, FALSE)
    ELSE IF ~resp.transport THEN [ NoReply(n, TRUE) EXCEPT !.hdr = "none" ]
    ELSE Reply(resp, "none")

\* The JWS protected header acme_post builds: kid when a->kid is a non-empty
\* string, jwk otherwise.
Protected(k) ==
    IF k # NULL /\ k # EMPTY THEN "kid" ELSE "jwk"

\* acme_post without the check of lines 178-182.
acme_post_any_nonce(n, k, url, jws, resp) ==
    IF url = NULL \/ ~jws THEN NoReply(n, FALSE)
    ELSE IF ~resp.transport THEN [ NoReply(n, TRUE) EXCEPT !.hdr = Protected(k) ]
    ELSE Reply(resp, Protected(k))

\* acme_post(a, url, ...) with the server answering resp; jws: the payload
\* was formatted and the JWS was built (vasprintf, jws_protected_xxx and
\* jws_encode did not fail).
acme_post(n, k, url, jws, resp) ==
    IF n = NULL THEN NoReply(n, FALSE)
    ELSE IF url = NULL \/ ~jws THEN NoReply(n, FALSE)
    ELSE IF ~resp.transport THEN [ NoReply(n, TRUE) EXCEPT !.hdr = Protected(k) ]
    ELSE Reply(resp, Protected(k))

\* ------------------------------------------------------------ domain names
\* A name on the command line is a sequence of characters.  The characters
\* tried: a lower-case letter, an upper-case letter, a digit, the three
\* separators, the asterisk and one character outside the permitted class.
Alphabet == { "a", "Z", "0", ".", "_", "-", "*", "/" }
NameStrings == UNION { [ 1..n -> Alphabet ] : n \in 0..MaxLen }

\* The terminating NUL of a C string.
NUL == "<NUL>"

\* s[k] in C: k counts from 0 and s[strlen(s)] is the terminator.
CharAt(s, k) ==
    IF k < Len(s) THEN s[k + 1] ELSE NUL

\* <ctype.h> in the C locale, on the characters tried.
isupper(c) == c = "Z"
islower(c) == c = "a"
isdigit(c) == c = "0"

\* The loop of validate_domain_str from index k on, with len as it stands.
\* len is a bool: len++ makes it true.
RECURSIVE validate_domain_from(_, _, _)
validate_domain_from(s, k, len) ==
    IF k >= Len(s) THEN len
    ELSE LET c == CharAt(s, k)
         IN  CASE c = "." ->
                    IF k = 0 THEN FALSE
                    ELSE validate_domain_from(s, k + 1, TRUE)
               [] c \in { "_", "-" } ->
                    validate_domain_from(s, k + 1, TRUE)
               [] c = "*" ->
                    IF k # 0 \/ CharAt(s, 1) # "." THEN FALSE
                    ELSE validate_domain_from(s, k + 1, len)
               [] OTHER ->
                    IF ~isupper(c) /\ ~islower(c) /\ ~isdigit(c) THEN FALSE
                    ELSE validate_domain_from(s, k + 1, TRUE)

validate_domain_str(s) ==
    validate_domain_from(s, 0, FALSE)

\* A name validate_domain_str accepts: main() gets past its arguments only
\* with such names.
EXAMPLE_NAME == << "a" >>

\* ------------------------------------------------------------------ state
VARIABLES
    pc,          \* where main() stands: the blocking call it is about to make
    action,      \* argv: new, update, deactivate, issue, revoke
    hook,        \* a.hook: NULL, or the hook program's path
    yes,         \* -y
    email,       \* a.email: NULL, or the address given
    names,       \* a.names: the names given to issue
    fs,          \* the configuration directory: path -> absent, dir, file
    cert,        \* <domain>/cert.pem: absent, old (saved earlier), new
    nonce,       \* a.nonce
    kid,         \* a.kid
    dir,         \* a.dir
    account,     \* a.account
    order,       \* a.order
    orderurl,    \* cert_issue's orderurl
    auth,        \* authorize's auth: the authorization being worked on
    i,           \* authorize's index into the authorizations array
    j,           \* authorize's index into the challenges array
    chlg_done,   \* authorize's chlg_done
    polls,       \* sleeps taken in the current poll loop
    ret,         \* main's ret, the exit code
    ev,          \* history: what the step just taken did
    wire,        \* history: a request went on the wire; a POST was refused;
                 \* the answer to the newAccount lookup; the stored nonce
                 \* went out in a POST already; the Replay-Nonce of the
                 \* last response
    attempt,     \* history: the challenge attempt the hook accepted, while open
    declined,    \* history: URLs of this authorization's challenges declined so far
    obs          \* history: the last order document received

sess == << nonce, kid, dir, account, order, orderurl >>
loop == << auth, i, j, chlg_done, polls >>
args == << action, hook, yes, email, names >>
hist == << wire, attempt, declined, obs >>
vars == << pc, args, fs, cert, sess, loop, ret, ev, hist >>

Actions == { "new", "update", "deactivate", "issue", "revoke" }
HOOK == "/tmp/h"
EMAIL == "a@example.com"

Paths == { "confdir", "keydir", "key", "dkeydir", "certdir", "dkey" }

\* Configuration directories main() may find: a prefix of
\* confdir, private/, private/key.pem exists, and below them any of
\* private/<domain>/, private/<domain>/key.pem and <domain>/; confdir may
\* also be a plain file.
FsAll(v) == [ p \in Paths |-> v ]
FsPrefix ==
    { FsAll("absent"),
      [ FsAll("absent") EXCEPT !["confdir"] = "file" ],
      [ FsAll("absent") EXCEPT !["confdir"] = "dir" ],
      [ FsAll("absent") EXCEPT !["confdir"] = "dir", !["keydir"] = "dir" ] }
FsAccount ==
    [ FsAll("absent") EXCEPT !["confdir"] = "dir", !["keydir"] = "dir",
                             !["key"] = "file" ]
FsDomain ==
    { [ FsAccount EXCEPT !["dkeydir"] = d, !["dkey"] = k, !["certdir"] = c ] :
        d \in {"absent", "dir"}, k \in {"absent", "file"}, c \in {"absent", "dir"} }
FsInits(act) ==
    FsPrefix \cup {FsAccount} \cup
    (IF act = "issue" THEN { f \in FsDomain : f["dkey"] = "file" => f["dkeydir"] = "dir" }
     ELSE {})

\* What <domain>/cert.pem may be when main() starts: absent, or the chain
\* an earlier run saved; it can exist only in an existing directory.
CertInits(act, f) ==
    IF act = "issue" /\ f["certdir"] = "dir" THEN {"absent", "old"} ELSE {"absent"}

NoAttempt ==
    [ open |-> FALSE, args |-> << >>, trigger |-> 0, poll |-> << 0, NULL >> ]
NoObs == [ status |-> NULL, via |-> "none" ]

Init ==
    /\ pc = "main"
    /\ action \in Actions
    /\ hook \in (IF action = "issue" THEN {NULL, HOOK} ELSE {NULL})
    /\ yes \in (IF action = "new" THEN BOOLEAN ELSE {FALSE})
    /\ email \in (IF action \in {"new", "update"} THEN {NULL, EMAIL} ELSE {NULL})
    /\ names = (IF action = "issue" THEN << EXAMPLE_NAME >> ELSE << >>)
    /\ fs \in FsInits(action)
    /\ cert \in CertInits(action, fs)
    /\ nonce = NULL /\ kid = NULL
    /\ dir = NoJson /\ account = NoJson /\ order = NoJson
    /\ orderurl = NULL
    /\ auth = NoJson /\ i = 0 /\ j = 0 /\ chlg_done = FALSE /\ polls = 0
    /\ ret = EXIT_FAILURE
    /\ ev = [ kind |-> "start" ]
    /\ wire = [ http |-> FALSE, refused |-> FALSE, lookup |-> NoAnswer,
                spent |-> FALSE, last |-> NULL ]
    /\ attempt = NoAttempt
    /\ declined = {} /\ obs = NoObs

\* exit(ret) at main's out label.
Exit(code) ==
    /\ pc' = "exit"
    /\ ret' = code

\* What a call of acme_get / acme_post did: the URL, whether a request went
\* on the wire, the nonce and protected header it carried, the status code
\* returned and the nonce stored afterwards.
\* The record of a step that ends without a request.
LocalEv ==
    [ kind |-> "local", step |-> pc ]

GetEv(url, r) ==
    [ kind |-> "get", step |-> pc, url |-> url, sent |-> r.sent, nonce |-> NULL,
      hdr |-> "none", code |-> r.ret, replay |-> r.nonce, ans |-> Answer(r) ]
PostEv(url, n, r) ==
    [ kind |-> "post", step |-> pc, url |-> url, sent |-> r.sent, nonce |-> n,
      kid |-> kid, hdr |-> r.hdr, code |-> r.ret, replay |-> r.nonce,
      ans |-> Answer(r), stale |-> wire.spent, last |-> wire.last ]

\* The session after a call of acme_get.
Got(url, r) ==
    /\ nonce' = r.nonce
    /\ wire' = [ wire EXCEPT !.http = @ \/ r.sent,
                             !.spent = IF r.body THEN FALSE ELSE @,
                             !.last = IF r.body THEN r.nonce ELSE @ ]
    /\ ev' = GetEv(url, r)

\* The session after a call of acme_post.  Every caller checks the URL it
\* looked up and returns without calling acme_post when there is none.
PostedAs(url, r, e) ==
    /\ nonce' = r.nonce
    /\ wire' = [ http |-> wire.http \/ r.sent,
                 refused |-> wire.refused \/ (url # NULL /\ nonce = NULL),
                 lookup |-> IF url # NULL /\ pc \in {"account_new", "account_retrieve"}
                            THEN Answer(r) ELSE wire.lookup,
                 spent |-> IF r.body THEN FALSE ELSE wire.spent \/ r.sent,
                 last |-> IF r.body THEN r.nonce ELSE wire.last ]
    /\ ev' = IF url = NULL THEN LocalEv ELSE e
Posted(url, r) ==
    PostedAs(url, r, PostEv(url, nonce, r))

\* ------------------------------------------------------------ filesystem
\* check_or_mkdir(allow_create, dir, mode); failAt: the path whose creation
\* the system refuses.
check_or_mkdir_always_create(allow_create, path, f, failAt) ==
    IF f[path] = "absent"
    THEN IF failAt = path
         THEN [ ok |-> FALSE, fs |-> f ]
         ELSE [ ok |-> TRUE, fs |-> [ f EXCEPT ![path] = "dir" ] ]
    ELSE [ ok |-> f[path] = "dir", fs |-> f ]
check_or_mkdir(allow_create, path, f, failAt) ==
    IF f[path] = "absent"
    THEN IF ~allow_create \/ failAt = path
         THEN [ ok |-> FALSE, fs |-> f ]
         ELSE [ ok |-> TRUE, fs |-> [ f EXCEPT ![path] = "dir" ] ]
    ELSE [ ok |-> f[path] = "dir", fs |-> f ]

\* key_load(create, path): load the PEM key, or generate and write it when it
\* is missing and create is set; failAt: the path whose key cannot be parsed
\* or written.
key_load(create, path, f, failAt) ==
    IF f[path] = "absent"
    THEN IF create /\ failAt # path
         THEN [ ok |-> TRUE, fs |-> [ f EXCEPT ![path] = "file" ] ]
         ELSE [ ok |-> FALSE, fs |-> f ]
    ELSE [ ok |-> failAt # path, fs |-> f ]

\* cert_valid returns false when cert.pem cannot be opened.
cert_valid_possible(c) ==
    c # "absent"

\* Skip that pays no attention to -f.
Skip_force_ignored(valid, force) ==
    valid

\* main, lines 1398-1410: the certificate at hand is kept when cert_valid
\* accepts it and -f was not given.
Skip(valid, force) ==
    valid /\ ~force

\* ------------------------------------------------------------------ main
\* main() from the hook check to the first call of acme_bootstrap: the
\* directories and keys, and for issue the renewal check.
\* never: -n; force: -f; valid: what cert_valid returns; hookok: the hook is
\* readable and executable.  checked: cert_valid was called.
MainOutcome(never, force, valid, hookok, failAt) ==
    LET is_new == action = "new"
        c1 == check_or_mkdir(is_new /\ ~never, "confdir", fs, failAt)
        c2 == check_or_mkdir(is_new /\ ~never, "keydir", c1.fs, failAt)
        k  == key_load(is_new /\ ~never, "key", c2.fs, failAt)
        d1 == check_or_mkdir(~never, "dkeydir", k.fs, failAt)
        d2 == check_or_mkdir(~never, "certdir", d1.fs, failAt)
        dk == key_load(~never, "dkey", d2.fs, failAt)
        Out(n, f, c) == [ next |-> n, fs |-> f, checked |-> c ]
    IN  IF hook # NULL /\ ~hookok THEN Out("fail", fs, FALSE)
        ELSE IF ~c1.ok THEN Out("fail", c1.fs, FALSE)
        ELSE IF ~c2.ok THEN Out("fail", c2.fs, FALSE)
        ELSE IF ~k.ok THEN Out("fail", k.fs, FALSE)
        ELSE IF action # "issue" THEN Out("bootstrap", k.fs, FALSE)
        ELSE IF ~d1.ok THEN Out("fail", d1.fs, FALSE)
        ELSE IF ~d2.ok THEN Out("fail", d2.fs, FALSE)
        ELSE IF ~dk.ok THEN Out("fail", dk.fs, FALSE)
        ELSE IF Skip(valid, force) THEN Out("skip", dk.fs, TRUE)
        ELSE Out("bootstrap", dk.fs, TRUE)

Main ==
    /\ pc = "main"
    /\ \E never, force, valid, hookok \in BOOLEAN, failAt \in Paths \cup {"none"} :
         LET o == MainOutcome(never, force, valid, hookok, failAt)
         IN  /\ valid => cert_valid_possible(cert)
             /\ fs' = o.fs
             /\ ev' = [ kind |-> "main", never |-> never, force |-> force,
                        checked |-> o.checked, valid |-> o.checked /\ valid,
                        fs0 |-> fs ]
             /\ CASE o.next = "fail" -> Exit(EXIT_FAILURE)
                  [] o.next = "skip" -> Exit(EXIT_SUCCESS)
                  [] OTHER -> pc' = "bootstrap" /\ ret' = ret
    /\ UNCHANGED << args, cert, sess, loop, hist >>

\* ------------------------------------------------------------- bootstrap
DirFull ==
    [ JsonNone EXCEPT !.newNonce = URL_NEWNONCE, !.newAccount = URL_NEWACCOUNT,
                      !.newOrder = URL_NEWORDER, !.revokeCert = URL_REVOKECERT,
                      !.termsOfService = URL_TERMS ]
Problem(t) == [ JsonNone EXCEPT !.type = t ]
BAD_NONCE == "urn:ietf:params:acme:error:badNonce"
NO_ACCOUNT == "urn:ietf:params:acme:error:accountDoesNotExist"

\* The directory bodies a server may send: complete, unparseable, an error
\* document, or lacking one entry.  Only entries the chosen action looks up
\* are left out: the others are never read.
DirBodies ==
    { DirFull, NoJson,
      [ DirFull EXCEPT !.error = TRUE ],
      [ DirFull EXCEPT !.newNonce = NULL ],
      [ DirFull EXCEPT !.newAccount = NULL ] }
    \cup (IF action = "issue" THEN { [ DirFull EXCEPT !.newOrder = NULL ] } ELSE {})
    \cup (IF action = "revoke" THEN { [ DirFull EXCEPT !.revokeCert = NULL ] } ELSE {})
    \cup (IF action = "new" THEN { [ DirFull EXCEPT !.termsOfService = NULL ] } ELSE {})
DirectoryResponses ==
    {NoResponse} \cup
    { Response(c, n, NULL, t, b) :
        c \in {HTTP_OK, HTTP_ERROR}, n \in ReplayValues,
        t \in {NULL, TYPE_JSON, TYPE_PROBLEM}, b \in DirBodies }
NonceResponses ==
    {NoResponse} \cup
    { Response(c, n, NULL, t, b) :
        c \in {HTTP_NO_CONTENT, HTTP_OK, HTTP_ERROR}, n \in ReplayValues,
        t \in {NULL, TYPE_PROBLEM}, b \in {NoJson, Problem(BAD_NONCE)} }

\* The test acme_bootstrap applies to each of its two GETs: the expected
\* status code, and a body acme_error does not take for an error document.
GetOk_status_only(r, code) ==
    r.ret = code
GetOk(r, code) ==
    r.ret = code /\ ~acme_error(r.json, r.type)

\* acme_bootstrap, first half: GET the directory.
BootstrapDirectory ==
    /\ pc = "bootstrap"
    /\ \E resp \in DirectoryResponses :
         LET r == acme_get(nonce, URL_DIRECTORY, resp)
             ok == GetOk(r, HTTP_OK)
         IN  /\ Got(URL_DIRECTORY, r)
             /\ dir' = IF ok THEN r.json ELSE dir
             /\ IF ok /\ json_find_string(r.json, "newNonce") # NULL
                THEN pc' = "bootstrap_nonce" /\ ret' = ret
                ELSE Exit(EXIT_FAILURE)
    /\ UNCHANGED << args, fs, cert, kid, account, order, orderurl, loop,
                    attempt, declined, obs >>

\* Where main() goes when acme_bootstrap returned true.
AfterBootstrap ==
    IF action = "new" THEN "account_new" ELSE "account_retrieve"

\* acme_bootstrap, second half: GET newNonce.
BootstrapNonce ==
    /\ pc = "bootstrap_nonce"
    /\ \E resp \in NonceResponses :
         LET url == json_find_string(dir, "newNonce")
             r == acme_get(nonce, url, resp)
             ok == GetOk(r, HTTP_NO_CONTENT)
         IN  /\ Got(url, r)
             /\ IF ok THEN pc' = AfterBootstrap /\ ret' = ret
                ELSE Exit(EXIT_FAILURE)
    /\ UNCHANGED << args, fs, cert, kid, dir, account, order, orderurl, loop,
                    attempt, declined, obs >>

\* ---------------------------------------------------------- POST answers
\* The answers a server may give to a signed POST: no answer at all; an
\* error status with a problem document or a plain page; or a status code
\* of `codes` with any Replay-Nonce, a Location of `locs`, and either no
\* JSON body or a body of `bodies` under a Content-Type of `types`.
Responses(codes, locs, types, bodies) ==
    {NoResponse} \cup
    { Response(HTTP_BAD_REQUEST, n, NULL, TYPE_PROBLEM, Problem(BAD_NONCE)) :
        n \in ReplayValues } \cup
    { Response(HTTP_ERROR, NONCE, NULL, NULL, NoJson) } \cup
    { Response(c, n, l, NULL, NoJson) :
        c \in codes, n \in ReplayValues, l \in locs } \cup
    { Response(c, n, l, t, b) :
        c \in codes, n \in ReplayValues, l \in locs, t \in types, b \in bodies }

\* acme_post looks at no answer when it has no nonce.
Answers(rs) ==
    IF nonce = NULL THEN {NoResponse} ELSE rs

\* The JWS can fail to build whatever the server would have answered.
JwsOutcomes(resp) ==
    IF resp = NoResponse THEN BOOLEAN ELSE {TRUE}

\* --------------------------------------------------------------- account
AccountBody(st) == [ JsonNone EXCEPT !.status = st ]

\* An element of the account's contact array: a string or not; beginning
\* with mailto: (in any case) or not; and the address after the prefix.
Contact(str, mailto, addr) == [ string |-> str, mailto |-> mailto, addr |-> addr ]
ContactKinds ==
    { Contact(TRUE, TRUE, EMAIL), Contact(TRUE, TRUE, "A@EXAMPLE.COM"),
      Contact(TRUE, TRUE, "b@example.com"), Contact(TRUE, FALSE, "tel:1"),
      Contact(FALSE, FALSE, NOT_STRING) }
ContactArrays ==
    UNION { { Array(cs) : cs \in [ 1..n -> ContactKinds ] } : n \in 0..MaxContacts }

\* The account objects a server may send.  The contact array is read by
\* update alone, so it is varied for that action only.
AccountBodies ==
    { NoJson, AccountBody("valid"), AccountBody("deactivated"), AccountBody(NULL),
      [ AccountBody("valid") EXCEPT !.error = TRUE ],
      Problem(NO_ACCOUNT), Problem(BAD_NONCE) }
    \cup (IF action = "update"
          THEN { [ AccountBody("valid") EXCEPT !.contact = c ] :
                   c \in ContactArrays \cup {NotArray} }
          ELSE {})
AccountResponses ==
    Responses({HTTP_OK, HTTP_BAD_REQUEST}, {NULL, EMPTY, URL_ACCOUNT},
              {TYPE_JSON, TYPE_PROBLEM}, AccountBodies)

\* Where main() goes when account_retrieve returned true.
AfterRetrieve ==
    CASE action = "update" -> "account_update"
      [] action = "deactivate" -> "account_deactivate"
      [] action = "revoke" -> "cert_revoke"
      [] OTHER -> "new_order"

\* RetrieveOk that does not look at the account's status.
RetrieveOk_any_status(r) ==
    /\ r.ret = HTTP_OK
    /\ ~acme_error(r.json, r.type)
    /\ r.location # NULL

\* account_retrieve's verdict on the answer r to its lookup POST.
RetrieveOk(r) ==
    /\ r.ret = HTTP_OK
    /\ ~acme_error(r.json, r.type)
    /\ json_compare_string(r.json, "status", "valid") = 0
    /\ r.location # NULL

\* account_retrieve: POST newAccount {onlyReturnExisting:true}.
AccountRetrieve ==
    /\ pc = "account_retrieve"
    /\ \E resp \in Answers(AccountResponses) : \E jws \in JwsOutcomes(resp) :
         LET url == json_find_string(dir, "newAccount")
             r == acme_post(nonce, kid, url, jws, resp)
             st == r.ret = HTTP_OK /\ ~acme_error(r.json, r.type)
                   /\ json_compare_string(r.json, "status", "valid") = 0
         IN  /\ Posted(url, r)
             /\ kid' = IF st THEN r.location ELSE kid
             /\ account' = IF RetrieveOk(r) THEN r.json ELSE account
             /\ IF RetrieveOk(r) THEN pc' = AfterRetrieve /\ ret' = ret
                ELSE Exit(EXIT_FAILURE)
    /\ UNCHANGED << args, fs, cert, dir, order, orderurl, loop, attempt, declined, obs >>

\* NoSuchAccount that does not look at the status code.
NoSuchAccount_any_code(r) ==
    /\ ~r.json.null
    /\ r.type = TYPE_PROBLEM
    /\ json_compare_string(r.json, "type", NO_ACCOUNT) = 0

\* account_new's verdict on the answer to its lookup POST: the account does
\* not exist yet (400 with the accountDoesNotExist problem document).
NoSuchAccount(r) ==
    /\ r.ret = HTTP_BAD_REQUEST
    /\ ~r.json.null
    /\ r.type = TYPE_PROBLEM
    /\ json_compare_string(r.json, "type", NO_ACCOUNT) = 0

\* MustAsk with the sense of -y inverted.
MustAsk_inverted(terms, y) ==
    terms # NULL /\ y

\* account_new, lines 453-461: the operator is asked when the directory
\* names terms of service and -y was not given.
MustAsk(terms, y) ==
    terms # NULL /\ ~y

\* account_new, lines 428-471: POST newAccount {onlyReturnExisting:true}.
AccountNew ==
    /\ pc = "account_new"
    /\ \E resp \in Answers(AccountResponses) : \E jws \in JwsOutcomes(resp) :
         LET url == json_find_string(dir, "newAccount")
             r == acme_post(nonce, kid, url, jws, resp)
             terms == json_find_string(dir, "termsOfService")
         IN  /\ Posted(url, r)
             /\ kid' = IF r.ret = HTTP_OK THEN r.location ELSE kid
             /\ IF ~NoSuchAccount(r) THEN Exit(EXIT_FAILURE)
                ELSE IF MustAsk(terms, yes) THEN pc' = "terms_prompt" /\ ret' = ret
                ELSE pc' = "account_create" /\ ret' = ret
    /\ UNCHANGED << args, fs, cert, dir, account, order, orderurl, loop,
                    attempt, declined, obs >>

\* account_new, lines 461-470: the operator types y to accept the terms.
TermsPrompt ==
    /\ pc = "terms_prompt"
    /\ \E c \in {"y", "n", "EOF"} :
         /\ ev' = [ kind |-> "terms", answer |-> c ]
         /\ IF c = "y" THEN pc' = "account_create" /\ ret' = ret
            ELSE Exit(EXIT_FAILURE)
    /\ UNCHANGED << args, fs, cert, sess, loop, hist >>

\* CreateOk that does not look at the account's status.
CreateOk_any_status(r) ==
    /\ r.ret = HTTP_CREATED
    /\ ~acme_error(r.json, r.type)
    /\ r.location # NULL

\* account_new's verdict on the answer to its creation POST.
CreateOk(r) ==
    /\ r.ret = HTTP_CREATED
    /\ ~acme_error(r.json, r.type)
    /\ json_compare_string(r.json, "status", "valid") = 0
    /\ r.location # NULL

\* account_new, lines 472-502: POST newAccount {termsOfServiceAgreed:true}.
AccountCreate ==
    /\ pc = "account_create"
    /\ \E resp \in Answers(Responses({HTTP_CREATED, HTTP_OK},
                                     {NULL, EMPTY, URL_ACCOUNT},
                                     {TYPE_JSON, TYPE_PROBLEM}, AccountBodies)) :
       \E jws \in JwsOutcomes(resp) :
         LET url == json_find_string(dir, "newAccount")
             r == acme_post(nonce, kid, url, jws, resp)
             st == r.ret = HTTP_CREATED /\ ~acme_error(r.json, r.type)
                   /\ json_compare_string(r.json, "status", "valid") = 0
         IN  /\ Posted(url, r)
             /\ kid' = IF st THEN r.location ELSE kid
             /\ IF CreateOk(r) THEN Exit(EXIT_SUCCESS) ELSE Exit(EXIT_FAILURE)
    /\ UNCHANGED << args, fs, cert, dir, account, order, orderurl, loop,
                    attempt, declined, obs >>

\* SameAddress comparing with strcmp.
SameAddress_exact(addr, mail) ==
    addr = mail

\* strcasecmp(contact + strlen("mailto:"), email) == 0 for the addresses the
\* model knows.
SameAddress(addr, mail) ==
    \/ addr = mail
    \/ addr = "A@EXAMPLE.COM" /\ mail = EMAIL

\* ContactVerdict validating the elements whether or not an address was given.
ContactVerdict_always_parsed(contacts, mail) ==
    IF contacts.present /\ ~contacts.array THEN "malformed"
    ELSE IF \E k \in 1..Len(contacts.values) :
              ~contacts.values[k].string \/ ~contacts.values[k].mailto
         THEN "malformed"
    ELSE IF mail # NULL /\ mail # EMPTY
         THEN IF ~contacts.present \/ Len(contacts.values) = 0
                 \/ \E k \in 1..Len(contacts.values) : contacts.values[k].addr # mail
              THEN "update" ELSE "same"
    ELSE IF contacts.present /\ Len(contacts.values) > 0 THEN "update"
    ELSE "same"

\* account_update, lines 565-598: does the contact array call for an update?
\* "malformed" when the answer cannot be parsed.
RECURSIVE ContactScan(_, _, _, _)
ContactScan(cs, k, mail, upd) ==
    IF k > Len(cs) THEN (IF upd THEN "update" ELSE "same")
    ELSE IF ~cs[k].string \/ ~cs[k].mailto THEN "malformed"
    ELSE ContactScan(cs, k + 1, mail, upd \/ ~SameAddress(cs[k].addr, mail))
ContactVerdict(contacts, mail) ==
    IF contacts.present /\ ~contacts.array THEN "malformed"
    ELSE IF mail # NULL /\ mail # EMPTY
         THEN IF ~contacts.present \/ Len(contacts.values) = 0 THEN "update"
              ELSE ContactScan(contacts.values, 1, mail, FALSE)
    ELSE IF contacts.present /\ Len(contacts.values) > 0 THEN "update"
    ELSE "same"

\* The test account_update, account_deactivate, cert_revoke and cert_issue
\* (for the certificate) apply to the answer of their last POST: status 200
\* and a body acme_error does not take for an error document.
\* PostOk that looks at the body only, not at the status code.
PostOk_body_only(r) ==
    ~acme_error(r.json, r.type)
PostOk_status_only(r) ==
    r.ret = HTTP_OK
PostOk(r) ==
    r.ret = HTTP_OK /\ ~acme_error(r.json, r.type)

PlainResponses ==
    Responses({HTTP_OK}, {NULL}, {TYPE_JSON, TYPE_PROBLEM},
              { AccountBody("valid"), [ AccountBody("valid") EXCEPT !.error = TRUE ] })

\* account_update: POST the new contact list to the account URL when the
\* server's list differs from the address given.
AccountUpdate ==
    /\ pc = "account_update"
    /\ LET v == ContactVerdict(account.contact, email)
       IN  CASE v = "malformed" ->
                  /\ Exit(EXIT_FAILURE) /\ ev' = LocalEv
                  /\ UNCHANGED << nonce, wire >>
             [] v = "same" ->
                  /\ Exit(EXIT_SUCCESS) /\ ev' = LocalEv
                  /\ UNCHANGED << nonce, wire >>
             [] OTHER ->
                  \E resp \in Answers(PlainResponses) : \E jws \in JwsOutcomes(resp) :
                    LET r == acme_post(nonce, kid, kid, jws, resp)
                    IN  /\ Posted(kid, r)
                        /\ IF PostOk(r)
                           THEN Exit(EXIT_SUCCESS) ELSE Exit(EXIT_FAILURE)
    /\ UNCHANGED << args, fs, cert, kid, dir, account, order, orderurl, loop,
                    attempt, declined, obs >>

\* account_deactivate: POST {"status": "deactivated"} to the account URL.
AccountDeactivate ==
    /\ pc = "account_deactivate"
    /\ \E resp \in Answers(PlainResponses) : \E jws \in JwsOutcomes(resp) :
         LET r == acme_post(nonce, kid, kid, jws, resp)
         IN  /\ Posted(kid, r)
             /\ IF PostOk(r)
                THEN Exit(EXIT_SUCCESS) ELSE Exit(EXIT_FAILURE)
    /\ UNCHANGED << args, fs, cert, kid, dir, account, order, orderurl, loop,
                    attempt, declined, obs >>

\* cert_revoke: POST the certificate to revokeCert.  crtok: the certificate
\* file could be loaded.
CertRevoke ==
    /\ pc = "cert_revoke"
    /\ \E resp \in Answers(PlainResponses), crtok \in BOOLEAN :
       \E jws \in JwsOutcomes(resp) :
         LET url == json_find_string(dir, "revokeCert")
             r == acme_post(nonce, kid, url, jws, resp)
         IN  IF ~crtok
             THEN /\ Exit(EXIT_FAILURE) /\ ev' = LocalEv
                  /\ UNCHANGED << nonce, wire >>
             ELSE /\ Posted(url, r)
                  /\ IF PostOk(r)
                     THEN Exit(EXIT_SUCCESS) ELSE Exit(EXIT_FAILURE)
    /\ UNCHANGED << args, fs, cert, kid, dir, account, order, orderurl, loop,
                    attempt, declined, obs >>

\* ------------------------------------------------------------- authorize
AuthzUrl(k) == URL_AUTHZ \o "/" \o ToString(k)
ChlgUrl(k, c) == URL_CHLG \o "/" \o ToString(k) \o "/" \o ToString(c)
Token(k, c) == "T" \o ToString(k) \o ToString(c)

\* sha256_base64url("%s.%s", token, thumbprint)
sha256_base64url(str) == "base64url(sha256(" \o str \o "))"

\* The key authorization of a challenge (authorize, lines 739-746).
KeyAuth_plain(type, token, thumbprint) ==
    token \o "." \o thumbprint
KeyAuth(type, token, thumbprint) ==
    IF type = "dns-01" THEN sha256_base64url(token \o "." \o thumbprint)
    ELSE token \o "." \o thumbprint

\* The argument vector hook_run is given after the method: type, identifier,
\* token, key_auth of challenge c of authorization a.
HookArgs(a, c) ==
    LET ch == a.challenges.values[c + 1]
    IN  << ch.type, a.identifier.value, ch.token,
           KeyAuth(ch.type, ch.token, THUMBPRINT) >>

\* The for loop over the challenges from index `from`: skip what is not
\* pending; stop at the first pending challenge, which is presented unless
\* it cannot be parsed or its key authorization cannot be built (kaok).
Scan_any_status(chs, from, kaok) ==
    IF from >= Len(chs) THEN [ next |-> "none", j |-> from ]
    ELSE LET ch == chs[from + 1]
         IN  IF ch.type = NULL \/ ch.url = NULL \/ ch.token = NULL
             THEN [ next |-> "fail", j |-> from ]
             ELSE IF ~kaok THEN [ next |-> "fail", j |-> from ]
             ELSE [ next |-> "present", j |-> from ]
RECURSIVE Scan(_, _, _)
Scan(chs, from, kaok) ==
    IF from >= Len(chs) THEN [ next |-> "none", j |-> from ]
    ELSE LET ch == chs[from + 1]
         IN  IF ch.status # "pending" THEN Scan(chs, from + 1, kaok)
             ELSE IF ch.type = NULL \/ ch.url = NULL \/ ch.token = NULL
                  THEN [ next |-> "fail", j |-> from ]
             ELSE IF ~kaok THEN [ next |-> "fail", j |-> from ]
             ELSE [ next |-> "present", j |-> from ]

\* The head of the for loop over the authorizations at index k: past the end
\* authorize returns true and cert_issue polls the order; an element that is
\* no string is fatal; otherwise the authorization is fetched.
AuthLoop(ord, k) ==
    IF k >= Len(ord.authorizations.values) THEN "order_poll_ready"
    ELSE IF ord.authorizations.values[k + 1] = NOT_STRING THEN "fail"
    ELSE "auth_fetch"

\* authorize's locals when the function is not running.
LoopIdle ==
    /\ auth' = NoJson /\ i' = 0 /\ j' = 0 /\ chlg_done' = FALSE /\ polls' = 0

\* Go on with authorization k (the loop head), or leave authorize.
GoAuth(ord, k) ==
    CASE AuthLoop(ord, k) = "fail" -> Exit(EXIT_FAILURE) /\ LoopIdle
      [] AuthLoop(ord, k) = "order_poll_ready" ->
            pc' = "order_poll_ready" /\ ret' = ret /\ LoopIdle
      [] OTHER ->
            /\ pc' = "auth_fetch" /\ ret' = ret
            /\ auth' = NoJson /\ i' = k /\ j' = 0 /\ chlg_done' = FALSE /\ polls' = 0

\* The challenges a server may list, at position c of authorization k: one
\* challenge per type, pending or not, and a pending one without its token.
TypeAt(c) ==
    IF c % 3 = 0 THEN "http-01" ELSE IF c % 3 = 1 THEN "dns-01" ELSE "tls-alpn-01"
Chlg(st, ty, k, c) ==
    [ status |-> st, type |-> ty, url |-> ChlgUrl(k, c), token |-> Token(k, c) ]
ChlgKinds(k, c) ==
    { Chlg("pending", TypeAt(c), k, c), Chlg("valid", TypeAt(c), k, c) }
NoToken(k, c) ==
    [ Chlg("pending", TypeAt(c), k, c) EXCEPT !.token = NULL ]
AllChlgs(k) ==
    UNION { ChlgKinds(k, c) \cup {NoToken(k, c)} : c \in 0..(MaxChlgs - 1) }
\* The challenge arrays of authorization k, up to MaxChlgs long.  What
\* follows a challenge that cannot be parsed is never read, so such a
\* challenge is listed last.
ChlgArrays(k) ==
    UNION { { Array(cs) : cs \in
                { f \in [ 1..n -> AllChlgs(k) ] :
                    \A c \in 1..n :
                        \/ f[c] \in ChlgKinds(k, c - 1)
                        \/ c = n /\ f[c] = NoToken(k, c - 1) } } :
            n \in 0..MaxChlgs }

AuthzBody(st) == [ JsonNone EXCEPT !.status = st ]
AuthzBodies(k) ==
    { NoJson, AuthzBody(NULL), AuthzBody("valid"), AuthzBody("invalid"),
      [ AuthzBody("pending") EXCEPT !.identifier = Ident("ip", IDENT) ],
      [ AuthzBody("pending") EXCEPT !.identifier = Ident("dns", NULL) ],
      [ AuthzBody("pending") EXCEPT !.identifier = Ident("dns", EMPTY) ] }
    \cup { [ AuthzBody("pending") EXCEPT !.identifier = Ident("dns", IDENT),
                                         !.challenges = cs ] :
             cs \in ChlgArrays(k) \cup {Absent, NotArray} }
AuthzResponses(k) ==
    Responses({HTTP_OK}, {NULL}, {TYPE_JSON}, AuthzBodies(k))

\* Present challenge c of the authorization a: run the hook, or ask the
\* operator.
GoPresent(a, from, kaok) ==
    LET sc == Scan(a.challenges.values, from, kaok)
    IN  CASE sc.next = "present" ->
               /\ pc' = "present" /\ ret' = ret
               /\ auth' = a /\ j' = sc.j /\ chlg_done' = FALSE /\ polls' = 0
               /\ i' = i
          [] OTHER -> Exit(EXIT_FAILURE) /\ LoopIdle

\* authorize: POST-as-GET the authorization at index i and walk to its first
\* pending challenge.
AuthFetch ==
    /\ pc = "auth_fetch"
    /\ \E resp \in Answers(AuthzResponses(i)), kaok \in BOOLEAN :
       \E jws \in JwsOutcomes(resp) :
         LET url == order.authorizations.values[i + 1]
             r == acme_post(nonce, kid, url, jws, resp)
             status == json_find_string(r.json, "status")
             ident == r.json.identifier
             ident_value == json_find_string(ident, "value")
         IN  /\ Posted(url, r)
             /\ IF r.ret # HTTP_OK THEN Exit(EXIT_FAILURE) /\ LoopIdle
                ELSE IF status = "valid" THEN GoAuth(order, i + 1)
                ELSE IF status # "pending" THEN Exit(EXIT_FAILURE) /\ LoopIdle
                ELSE IF json_compare_string(ident, "type", "dns") # 0
                     THEN Exit(EXIT_FAILURE) /\ LoopIdle
                ELSE IF ident_value = NULL \/ ident_value = EMPTY
                     THEN Exit(EXIT_FAILURE) /\ LoopIdle
                ELSE IF ~r.json.challenges.array
                     THEN Exit(EXIT_FAILURE) /\ LoopIdle
                ELSE GoPresent(r.json, 0, kaok)
    /\ UNCHANGED << args, fs, cert, kid, dir, account, order, orderurl,
                    attempt, declined, obs >>

\* hook_run: -1 when the hook could not be run to a normal exit (fork or
\* exec failed, killed by a signal), its exit status otherwise.
HookResults == { -1, 0, 1 }

\* The record of a hook call; att is the attempt open when it is made.
HookEv(method, a, c, r) ==
    [ kind |-> "hook", method |-> method, i |-> i, j |-> c,
      args |-> HookArgs(a, c), r |-> r, att |-> attempt,
      later |-> PendingFrom(a, c + 1) ]

\* The URLs of the challenges of the authorization at hand that were
\* declined; none once authorize moves to the next authorization or returns
\* true.
Declined(d) ==
    IF pc' \in {"auth_fetch", "order_poll_ready"} THEN {} ELSE d

\* BeginVerdict taking every result but a spawn failure for an accept.
BeginVerdict_no_decline(r) ==
    IF r < 0 THEN "fatal" ELSE "accepted"

\* BeginVerdict taking a spawn failure for a decline.
BeginVerdict_no_fatal(r) ==
    IF r = 0 THEN "accepted" ELSE "declined"

\* What authorize does with the result r of hook begin.
BeginVerdict(r) ==
    IF r < 0 THEN "fatal" ELSE IF r > 0 THEN "declined" ELSE "accepted"

\* authorize, lines 752-774: the hook is configured; run it with begin.
HookBegin ==
    /\ pc = "present"
    /\ hook # NULL
    /\ \E r \in HookResults, kaok \in BOOLEAN :
         /\ ev' = HookEv("begin", auth, j, r)
         /\ CASE BeginVerdict(r) = "fatal" ->
                   /\ Exit(EXIT_FAILURE) /\ LoopIdle
                   /\ declined' = Declined(declined)
                   /\ UNCHANGED attempt
              [] BeginVerdict(r) = "declined" ->
                   /\ GoPresent(auth, j + 1, kaok)
                   /\ declined' = Declined(declined \cup {auth.challenges.values[j + 1].url})
                   /\ UNCHANGED attempt
              [] OTHER ->
                   /\ attempt' = [ NoAttempt EXCEPT !.open = TRUE,
                                                    !.args = HookArgs(auth, j) ]
                   /\ pc' = "chlg_trigger"
                   /\ UNCHANGED << ret, loop, declined >>
    /\ UNCHANGED << args, fs, cert, sess, wire, obs >>

\* authorize, lines 775-786: no hook; the operator types y to accept.
Prompt ==
    /\ pc = "present"
    /\ hook = NULL
    /\ \E c \in {"y", "n", "EOF"}, kaok \in BOOLEAN :
         /\ ev' = [ kind |-> "prompt", i |-> i, j |-> j,
                    args |-> HookArgs(auth, j), answer |-> c,
                    later |-> PendingFrom(auth, j + 1) ]
         /\ IF c = "y"
            THEN pc' = "chlg_trigger" /\ UNCHANGED << ret, loop, declined >>
            ELSE GoPresent(auth, j + 1, kaok) /\ declined' = Declined(declined \cup {auth.challenges.values[j + 1].url})
    /\ UNCHANGED << args, fs, cert, sess, wire, attempt, obs >>

\* The end of the attempt on challenge j (lines 830-834): a failed attempt
\* is fatal, a completed one takes authorize to the next authorization.
\* done: chlg_done as the attempt left it.
AfterAttempt_next_challenge(done) ==
    IF ~done THEN GoPresent(auth, j + 1, TRUE)
    ELSE GoAuth(order, i + 1)
AfterAttempt_goes_on(done) ==
    GoAuth(order, i + 1)
AfterAttempt(done) ==
    IF ~done THEN Exit(EXIT_FAILURE) /\ LoopIdle
    ELSE GoAuth(order, i + 1)

\* GoClose that never tells the hook.
GoClose_silent(done) ==
    AfterAttempt(done)

\* Leaving the trigger or the poll loop (line 822): with a hook, it is told
\* the outcome first; without one authorize goes straight on.
GoClose(done) ==
    IF hook # NULL
    THEN /\ pc' = "hook_close" /\ ret' = ret
         /\ chlg_done' = done /\ polls' = 0
         /\ UNCHANGED << auth, i, j >>
    ELSE AfterAttempt(done)

ChlgBody(st) == [ JsonNone EXCEPT !.status = st ]
ChlgBodies ==
    { NoJson, ChlgBody(NULL), ChlgBody("valid"), ChlgBody("invalid"),
      ChlgBody("pending"), ChlgBody("processing") }
ChlgResponses ==
    Responses({HTTP_OK}, {NULL}, {TYPE_JSON}, ChlgBodies)

\* The statuses on which a poll loop sleeps and asks again.  The model lets
\* the server give at most MaxPolls such answers in a row.
MaySleep(resp, again) ==
    (resp.transport /\ resp.code = HTTP_OK /\ ~resp.body.null /\ resp.ctype # NULL
        /\ resp.body.status \in again)
    => polls < MaxPolls

\* authorize, lines 788-793: POST {} to the challenge URL.
ChlgTrigger ==
    /\ pc = "chlg_trigger"
    /\ \E resp \in Answers(ChlgResponses) : \E jws \in JwsOutcomes(resp) :
         LET url == auth.challenges.values[j + 1].url
             r == acme_post(nonce, kid, url, jws, resp)
         IN  /\ Posted(url, r)
             /\ attempt' = IF attempt.open
                           THEN [ attempt EXCEPT !.trigger = r.ret ] ELSE attempt
             /\ IF r.ret = HTTP_OK
                THEN /\ pc' = "chlg_poll" /\ ret' = ret
                     /\ polls' = 0 /\ UNCHANGED << auth, i, j, chlg_done >>
                ELSE GoClose(FALSE)
             /\ declined' = Declined(declined)
    /\ UNCHANGED << args, fs, cert, kid, dir, account, order, orderurl, obs >>

\* What the poll loop of lines 794-821 does with an answer: done, failed,
\* or sleep and poll again.
ChlgPollVerdict_ceiling(r) ==
    LET status == json_find_string(r.json, "status")
    IN  IF r.ret # HTTP_OK THEN "failed"
        ELSE IF status = "valid" THEN "done"
        ELSE IF status \notin {"processing", "pending"} THEN "failed"
        ELSE IF polls >= 1 THEN "failed"
        ELSE "sleep"
ChlgPollVerdict_retry(r) ==
    LET status == json_find_string(r.json, "status")
    IN  IF r.ret # HTTP_OK THEN "sleep"
        ELSE IF status = "valid" THEN "done"
        ELSE IF status \notin {"processing", "pending"} THEN "failed"
        ELSE "sleep"
ChlgPollVerdict(r) ==
    LET status == json_find_string(r.json, "status")
    IN  IF r.ret # HTTP_OK THEN "failed"
        ELSE IF status = "valid" THEN "done"
        ELSE IF status \notin {"processing", "pending"} THEN "failed"
        ELSE "sleep"

\* authorize, lines 794-821: one round of the challenge poll loop.
ChlgPoll ==
    /\ pc = "chlg_poll"
    /\ \E resp \in Answers(ChlgResponses) : \E jws \in JwsOutcomes(resp) :
         LET url == auth.challenges.values[j + 1].url
             r == acme_post(nonce, kid, url, jws, resp)
             v == ChlgPollVerdict(r)
         IN  /\ MaySleep(resp, {"processing", "pending"})
             /\ Posted(url, r)
             /\ attempt' = IF attempt.open
                           THEN [ attempt EXCEPT
                                    !.poll = << r.ret, json_find_string(r.json, "status") >> ]
                           ELSE attempt
             /\ CASE v = "sleep" ->
                       /\ pc' = "chlg_poll" /\ ret' = ret
                       /\ polls' = polls + 1 /\ UNCHANGED << auth, i, j, chlg_done >>
                  [] OTHER -> GoClose(v = "done")
             /\ declined' = Declined(declined)
    /\ UNCHANGED << args, fs, cert, kid, dir, account, order, orderurl, obs >>

\* CloseMethod reporting done whatever happened.
CloseMethod_always_done(done) ==
    "done"

\* The method of the closing hook call (line 824).
CloseMethod(done) ==
    IF done THEN "done" ELSE "failed"

\* CloseVerdict failing the attempt when the closing hook call fails.
CloseVerdict_checked(r, done) ==
    done /\ r = 0

\* What authorize does with the result r of the closing hook call: nothing,
\* it goes by chlg_done (line 830).
CloseVerdict(r, done) ==
    done

\* authorize, lines 822-833: tell the hook how the attempt ended.
HookClose ==
    /\ pc = "hook_close"
    /\ \E r \in HookResults :
         /\ ev' = HookEv(CloseMethod(chlg_done), auth, j, r)
         /\ attempt' = NoAttempt
         /\ AfterAttempt(CloseVerdict(r, chlg_done))
         /\ declined' = Declined(declined)
    /\ UNCHANGED << args, fs, cert, sess, wire, obs >>

\* --------------------------------------------------------------- order
AuthArrays ==
    { Array([ k \in 1..n |-> AuthzUrl(k) ]) : n \in 0..MaxAuths } \cup
    { Array([ k \in 1..n |-> IF k = n THEN NOT_STRING ELSE AuthzUrl(k) ]) :
        n \in 1..MaxAuths }

OrderBody(st) == [ JsonNone EXCEPT !.status = st ]

\* Answers to newOrder: a pending order with its authorizations, a ready
\* order with or without its finalize URL, and orders in other states.
NewOrderBodies ==
    { NoJson, OrderBody(NULL), OrderBody("invalid"), OrderBody("valid"),
      OrderBody("processing"),
      [ OrderBody("pending") EXCEPT !.error = TRUE ] }
    \cup { [ OrderBody("pending") EXCEPT !.authorizations = a, !.finalize = URL_FINALIZE ] :
             a \in AuthArrays \cup {Absent, NotArray} }
    \cup { [ OrderBody("ready") EXCEPT !.finalize = f,
                                        !.authorizations = Array(<< AuthzUrl(1) >>) ] :
             f \in {NULL, URL_FINALIZE} }
NewOrderResponses ==
    Responses({HTTP_CREATED, HTTP_OK}, {NULL, URL_ORDER}, {TYPE_JSON},
              NewOrderBodies)

\* cert_issue, line 894: authorize is called unless the new order is ready.
NeedsAuthorize_always(status) ==
    TRUE
NeedsAuthorize(status) ==
    status # "ready"

\* cert_issue from its start to the first call it blocks in after newOrder.
\* idsok: identifiers() built the payload; thumbok: jws_thumbprint worked.
NewOrder ==
    /\ pc = "new_order"
    /\ \E resp \in Answers(NewOrderResponses), idsok, thumbok \in BOOLEAN :
       \E jws \in JwsOutcomes(resp) :
         LET url == json_find_string(dir, "newOrder")
             r == acme_post(nonce, kid, url, jws, resp)
             status == json_find_string(r.json, "status")
             ok == /\ r.ret = HTTP_CREATED
                   /\ status \in {"pending", "ready"}
                   /\ r.location # NULL
         IN  IF ~idsok
             THEN /\ Exit(EXIT_FAILURE)
                  /\ ev' = LocalEv
                  /\ UNCHANGED << nonce, wire, order, orderurl, loop, obs >>
             ELSE /\ Posted(url, r)
                  /\ order' = IF ok THEN r.json ELSE order
                  /\ orderurl' = IF ok THEN r.location ELSE orderurl
                  /\ obs' = IF r.ret = HTTP_CREATED
                            THEN [ status |-> status, via |-> "newOrder" ] ELSE obs
                  /\ IF ~ok THEN Exit(EXIT_FAILURE) /\ UNCHANGED loop
                     ELSE IF ~NeedsAuthorize(status)
                          THEN pc' = "finalize" /\ ret' = ret /\ UNCHANGED loop
                     ELSE IF ~r.json.authorizations.array \/ ~thumbok
                          THEN Exit(EXIT_FAILURE) /\ UNCHANGED loop
                     ELSE GoAuth(r.json, 0)
    /\ UNCHANGED << args, fs, cert, kid, dir, account, attempt, declined >>

\* Answers to a poll of the order URL.
OrderPollBodies ==
    { NoJson, OrderBody(NULL), OrderBody("invalid"), OrderBody("processing"),
      [ OrderBody("pending") EXCEPT !.finalize = URL_FINALIZE ] }
    \cup { [ OrderBody("ready") EXCEPT !.finalize = f ] : f \in {NULL, URL_FINALIZE} }
    \cup { [ OrderBody("valid") EXCEPT !.certificate = c ] : c \in {NULL, URL_CERT} }
OrderPollResponses ==
    Responses({HTTP_OK}, {NULL}, {TYPE_JSON}, OrderPollBodies)

\* OrderPollVerdict leaving the loop on the status it should wait on.
OrderPollVerdict_early(r, goal, again) ==
    LET status == json_find_string(r.json, "status")
    IN  IF r.ret # HTTP_OK THEN "failed"
        ELSE IF status = goal \/ status = again THEN "done"
        ELSE "failed"

\* OrderPollVerdict that gives up on the status invalid only.
OrderPollVerdict_lenient(r, goal, again) ==
    LET status == json_find_string(r.json, "status")
    IN  IF r.ret # HTTP_OK THEN "failed"
        ELSE IF status = goal THEN "done"
        ELSE IF status = "invalid" THEN "failed"
        ELSE "sleep"

\* OrderPollVerdict that asks again when a poll got no 200.
OrderPollVerdict_retry(r, goal, again) ==
    LET status == json_find_string(r.json, "status")
    IN  IF r.ret # HTTP_OK THEN "sleep"
        ELSE IF status = goal THEN "done"
        ELSE IF status # again THEN "failed"
        ELSE "sleep"

\* What a poll loop of cert_issue does with an answer: `goal` ends it,
\* `again` sleeps and polls once more, anything else is fatal.
OrderPollVerdict(r, goal, again) ==
    LET status == json_find_string(r.json, "status")
    IN  IF r.ret # HTTP_OK THEN "failed"
        ELSE IF status = goal THEN "done"
        ELSE IF status # again THEN "failed"
        ELSE "sleep"

\* cert_issue, lines 901-930: one round of the poll loop before finalize.
OrderPollReady ==
    /\ pc = "order_poll_ready"
    /\ \E resp \in Answers(OrderPollResponses) : \E jws \in JwsOutcomes(resp) :
         LET r == acme_post(nonce, kid, orderurl, jws, resp)
             v == OrderPollVerdict(r, "ready", "pending")
         IN  /\ MaySleep(resp, {"pending"})
             /\ Posted(orderurl, r)
             /\ obs' = IF r.ret = HTTP_OK
                       THEN [ status |-> json_find_string(r.json, "status"),
                              via |-> "poll" ]
                       ELSE obs
             /\ order' = IF v = "done" THEN r.json ELSE order
             /\ CASE v = "done" -> pc' = "finalize" /\ ret' = ret /\ polls' = 0
                  [] v = "sleep" -> pc' = pc /\ ret' = ret /\ polls' = polls + 1
                  [] OTHER -> Exit(EXIT_FAILURE) /\ polls' = 0
    /\ UNCHANGED << args, fs, cert, kid, dir, account, orderurl, auth, i, j, chlg_done,
                    attempt, declined >>

FinalizeBodies ==
    { NoJson, OrderBody("processing"), OrderBody("valid"),
      [ OrderBody("processing") EXCEPT !.error = TRUE ] }
FinalizeResponses ==
    Responses({HTTP_OK}, {NULL}, {TYPE_JSON, TYPE_PROBLEM}, FinalizeBodies)

\* cert_issue, lines 933-958: build the CSR and POST it to the order's
\* finalize URL.  csrok: csr_gen worked.
Finalize ==
    /\ pc = "finalize"
    /\ \E resp \in Answers(FinalizeResponses), csrok \in BOOLEAN :
       \E jws \in JwsOutcomes(resp) :
         LET finalize == json_find_string(order, "finalize")
             r == acme_post(nonce, kid, finalize, jws, resp)
         IN  IF ~csrok
             THEN /\ Exit(EXIT_FAILURE)
                  /\ ev' = LocalEv
                  /\ UNCHANGED << nonce, wire >>
             ELSE /\ Posted(finalize, r)
                  /\ IF r.ret = HTTP_OK /\ ~acme_error(r.json, r.type)
                     THEN pc' = "order_poll_valid" /\ ret' = ret
                     ELSE Exit(EXIT_FAILURE)
    /\ UNCHANGED << args, fs, cert, kid, dir, account, order, orderurl, loop,
                    attempt, declined, obs >>

\* cert_issue, lines 960-989: one round of the poll loop after finalize.
OrderPollValid ==
    /\ pc = "order_poll_valid"
    /\ \E resp \in Answers(OrderPollResponses) : \E jws \in JwsOutcomes(resp) :
         LET r == acme_post(nonce, kid, orderurl, jws, resp)
             v == OrderPollVerdict(r, "valid", "processing")
         IN  /\ MaySleep(resp, {"processing"})
             /\ Posted(orderurl, r)
             /\ obs' = IF r.ret = HTTP_OK
                       THEN [ status |-> json_find_string(r.json, "status"),
                              via |-> "poll_finalized" ]
                       ELSE obs
             /\ order' = IF v = "done" THEN r.json ELSE order
             /\ CASE v = "done" -> pc' = "cert_get" /\ ret' = ret /\ polls' = 0
                  [] v = "sleep" -> pc' = pc /\ ret' = ret /\ polls' = polls + 1
                  [] OTHER -> Exit(EXIT_FAILURE) /\ polls' = 0
    /\ UNCHANGED << args, fs, cert, kid, dir, account, orderurl, auth, i, j, chlg_done,
                    attempt, declined >>

\* cert_save writes the chain to a temporary file and renames it to
\* cert.pem: the file is the new chain when it succeeds and is untouched
\* when it fails.
cert_save(written, c) ==
    IF written THEN "new" ELSE c

CertResponses ==
    { Response(c, n, NULL, TYPE_PEM, NoJson) :
        c \in {HTTP_OK}, n \in ReplayValues } \cup
    Responses({HTTP_OK}, {NULL}, {TYPE_JSON, TYPE_PROBLEM},
              { [ JsonNone EXCEPT !.error = TRUE ], Problem(BAD_NONCE) })

\* cert_issue, lines 991-1016: POST-as-GET the certificate URL and save the
\* chain.  saveok: cert_save wrote the file; it is called only for a good
\* answer, and the step's record says whether the chain was saved.
CertGet ==
    /\ pc = "cert_get"
    /\ \E resp \in Answers(CertResponses), saveok \in BOOLEAN :
       \E jws \in JwsOutcomes(resp) :
         LET certurl == json_find_string(order, "certificate")
             r == acme_post(nonce, kid, certurl, jws, resp)
             called == PostOk(r)
             saved == called /\ saveok
         IN  /\ PostedAs(certurl, r,
                         PostEv(certurl, nonce, r) @@
                           [ called |-> called, saved |-> saved ])
             /\ cert' = cert_save(saved, cert)
             /\ IF saved
                THEN Exit(EXIT_SUCCESS)
                ELSE Exit(EXIT_FAILURE)
    /\ UNCHANGED << args, fs, kid, dir, account, order, orderurl, loop,
                    attempt, declined, obs >>

Next ==
    \/ Main
    \/ BootstrapDirectory
    \/ BootstrapNonce
    \/ AccountNew
    \/ TermsPrompt
    \/ AccountCreate
    \/ AccountRetrieve
    \/ AccountUpdate
    \/ AccountDeactivate
    \/ CertRevoke
    \/ NewOrder
    \/ AuthFetch
    \/ HookBegin
    \/ Prompt
    \/ ChlgTrigger
    \/ ChlgPoll
    \/ HookClose
    \/ OrderPollReady
    \/ Finalize
    \/ OrderPollValid
    \/ CertGet

Spec == Init /\ [][Next]_vars

\* The program is one thread that runs from one blocking call to the next:
\* as long as the server, the hook and the operator answer, it takes its
\* next step.  The server's patience is part of Next: MaySleep lets it
\* answer a poll with pending or processing at most MaxPolls times in a row.
SpecLive == Init /\ [][Next]_vars /\ WF_vars(Next)

\* --------------------------------------------------- main, the names given
\* main() for issue, lines 1258-1271, for every list of at most one name:
\* no name at all is a usage error, a name validate_domain_str rejects ends
\* the run, and otherwise main goes on to the hook check.
InitDomain ==
    /\ pc = "names"
    /\ action = "issue" /\ hook = NULL /\ yes = FALSE /\ email = NULL
    /\ names \in { << >> } \cup { << s >> : s \in NameStrings }
    /\ fs = FsAccount
    /\ cert = "absent"
    /\ nonce = NULL /\ kid = NULL
    /\ dir = NoJson /\ account = NoJson /\ order = NoJson
    /\ orderurl = NULL
    /\ auth = NoJson /\ i = 0 /\ j = 0 /\ chlg_done = FALSE /\ polls = 0
    /\ ret = EXIT_FAILURE
    /\ ev = [ kind |-> "start" ]
    /\ wire = [ http |-> FALSE, refused |-> FALSE, lookup |-> NoAnswer,
                spent |-> FALSE, last |-> NULL ]
    /\ attempt = NoAttempt
    /\ declined = {} /\ obs = NoObs

ValidateNames ==
    /\ pc = "names"
    /\ LET ok == /\ Len(names) > 0
                 /\ \A k \in 1..Len(names) : validate_domain_str(names[k])
       IN  /\ ev' = [ kind |-> "names", names |-> names, ok |-> ok ]
           /\ IF ok THEN pc' = "main" /\ ret' = ret
              ELSE Exit(EXIT_FAILURE)
    /\ UNCHANGED << args, fs, cert, sess, loop, hist >>

NextDomain ==
    ValidateNames

SpecDomain == InitDomain /\ [][NextDomain]_vars

\* ================================================================ claims
\* The properties below read the history variables: ev is the record of the
\* last step, wire what went on the wire so far, attempt the challenge
\* attempt the hook accepted and has not been told the end of, declined the
\* challenges declined, obs the last order status the client read.

\* C1, what the code guarantees: a POST goes on the wire only when a->nonce
\* is not NULL.  A nonce that is the empty string passes.
C1_PostHasNonce ==
    (ev.kind = "post" /\ ev.sent) => ev.nonce # NULL

\* A POST went on the wire carrying the empty string as its nonce.
C1_EmptyNonceSent ==
    ev.kind = "post" /\ ev.sent /\ ev.nonce = EMPTY

\* C1 as stated: before every signed POST is sent the session nonce is
\* non-empty (so a nonce left empty by a response is refilled before the
\* next POST is sent).
C1_NonceNonEmpty ==
    (ev.kind = "post" /\ ev.sent) => ev.nonce \notin {NULL, EMPTY}

C3_KidWhenSet ==
    (ev.kind = "post" /\ ev.sent) =>
        /\ ev.hdr = (IF ev.kid \notin {NULL, EMPTY} THEN "kid" ELSE "jwk")
        /\ ev.step \in {"account_new", "account_create", "account_retrieve"}
              => ev.kid = NULL
        /\ ev.step \notin {"account_new", "account_create", "account_retrieve"}
              => ev.kid # NULL

\* A POST to the newOrder URL went on the wire with jwk in its header.
C3_JwkAfterLookup ==
    ev.kind = "post" /\ ev.sent /\ ev.url = URL_NEWORDER /\ ev.hdr = "jwk"

\* C3 as stated: jwk is used only on POSTs to the newAccount URL, and every
\* POST sent after the account lookup or creation has succeeded carries kid.
C3_JwkOnlyNewAccount ==
    (ev.kind = "post" /\ ev.sent) =>
        /\ ev.hdr \in {"jwk", "kid"}
        /\ ev.hdr = "jwk" => ev.url = URL_NEWACCOUNT
        /\ ev.step \notin {"account_new", "account_create", "account_retrieve"}
              => ev.hdr = "kid"

\* C4: cert_issue calls acme_post for the finalize URL only when the last
\* order status it read, in the newOrder answer or in a poll before
\* finalize, is ready; and for the certificate URL only when the last order
\* status it read, in a poll after finalize, is valid.
C4_OrderStatusGates ==
    /\ (ev.kind = "post" /\ ev.step = "finalize") =>
          (obs.status = "ready" /\ obs.via \in {"newOrder", "poll"})
    /\ (ev.kind = "post" /\ ev.step = "cert_get") =>
          (obs.status = "valid" /\ obs.via = "poll_finalized")
    /\ pc = "finalize" => (obs.status = "ready" /\ obs.via \in {"newOrder", "poll"})
    /\ pc = "cert_get" => (obs.status = "valid" /\ obs.via = "poll_finalized")

\* The certificate POST went on the wire after finalize and a poll.
C4_CertRequested ==
    ev.kind = "post" /\ ev.step = "cert_get" /\ ev.sent /\ ev.url = URL_CERT

\* C5: with a hook, an attempt opened by begin returning 0 is open only
\* while authorize triggers or polls that challenge or is about to tell the
\* hook; it is closed by one done or failed call with the arguments of the
\* begin call; begin is never called, no authorization is fetched and the
\* process does not exit while an attempt is open.
C5_BeginClosedOnce ==
    /\ attempt.open => (hook # NULL /\ pc \in {"chlg_trigger", "chlg_poll", "hook_close"})
    /\ (hook # NULL /\ pc \in {"chlg_trigger", "chlg_poll", "hook_close"}) => attempt.open
    /\ (ev.kind = "hook" /\ ev.method = "begin") =>
          /\ ~ev.att.open
          /\ attempt.open <=> ev.r = 0
          /\ ev.r = 0 => attempt.args = ev.args
    /\ (ev.kind = "hook" /\ ev.method # "begin") =>
          /\ ev.method \in {"done", "failed"}
          /\ ev.att.open /\ ev.att.args = ev.args
          /\ ~attempt.open

\* The hook was told done with the arguments of its begin call and
\* authorize goes to the next authorization.
C5_ClosedThenNext ==
    /\ ev.kind = "hook" /\ ev.method = "done" /\ ev.att.args = ev.args
    /\ pc = "auth_fetch"

\* C6: the closing hook method is done exactly when the trigger POST
\* returned 200 and the last poll returned 200 with status valid; a poll
\* returning 200 with pending or processing is followed by another poll;
\* every other poll answer and a non-200 trigger end the attempt as failed.
C6_CloseMethod ==
    /\ (ev.kind = "hook" /\ ev.method # "begin") =>
          (ev.method = "done" <=>
              (ev.att.trigger = HTTP_OK /\ ev.att.poll = << HTTP_OK, "valid" >>))
    /\ (hook # NULL /\ ev.kind = "post" /\ ev.step = "chlg_trigger") =>
          IF ev.code = HTTP_OK THEN pc = "chlg_poll"
          ELSE pc = "hook_close" /\ ~chlg_done
    /\ (hook # NULL /\ ev.kind = "post" /\ ev.step = "chlg_poll") =>
          IF attempt.poll[1] = HTTP_OK /\ attempt.poll[2] \in {"pending", "processing"}
          THEN pc = "chlg_poll"
          ELSE /\ pc = "hook_close"
               /\ chlg_done <=> attempt.poll = << HTTP_OK, "valid" >>

\* The hook was told failed after a poll that returned 200 with status
\* invalid.
C6_FailedOnInvalid ==
    /\ ev.kind = "hook" /\ ev.method = "failed"
    /\ ev.att.trigger = HTTP_OK /\ ev.att.poll = << HTTP_OK, "invalid" >>

\* C7: when hook begin exits with a code above 0 no attempt is opened;
\* authorize presents the next pending challenge of the same authorization,
\* or fails when there is none it can present; the challenge authorize
\* presents, triggers, polls or closes is never one it declined; and the
\* authorizations are fetched once each, in the order's order.
C7_Declined ==
    /\ [](/\ (ev.kind = "hook" /\ ev.method = "begin" /\ ev.r > 0) =>
               /\ ~attempt.open
               /\ pc \in {"present", "exit"}
               /\ pc = "exit" => ret = EXIT_FAILURE
               /\ pc = "present" =>
                     /\ i = ev.i /\ j > ev.j
                     /\ auth.challenges.values[ev.j + 1].url \in declined
                     /\ auth.challenges.values[j + 1].status = "pending"
                     /\ \A c \in (ev.j + 1)..(j - 1) :
                           auth.challenges.values[c + 1].status # "pending"
          /\ pc \in {"present", "chlg_trigger", "chlg_poll", "hook_close"} =>
               auth.challenges.values[j + 1].url \notin declined
          /\ (ev.kind = "post" /\ ev.step \in {"chlg_trigger", "chlg_poll"}) =>
               ev.url \notin declined
          /\ (ev.kind = "hook" /\ ev.method # "begin") =>
               ChlgUrl(ev.i, ev.j) \notin declined)
    /\ [][pc' = "auth_fetch" =>
               \/ pc = "new_order" /\ i' = 0
               \/ pc \in {"auth_fetch", "chlg_trigger", "chlg_poll", "hook_close"}
                  /\ i' = i + 1]_vars

\* The hook declined a challenge and the next pending one is presented.
C7_NextPresented ==
    ev.kind = "hook" /\ ev.method = "begin" /\ ev.r > 0 /\ pc = "present"

\* C8: when hook begin cannot be run to a normal exit the process exits
\* non-zero at once: no attempt is opened and nothing more happens.
C8_BeginFatal ==
    (ev.kind = "hook" /\ ev.method = "begin" /\ ev.r < 0) =>
        /\ pc = "exit" /\ ret = EXIT_FAILURE
        /\ ~attempt.open
        /\ ~ENABLED Next

\* Hook begin could not be run and the process has exited.
C8_SpawnFailed ==
    ev.kind = "hook" /\ ev.method = "begin" /\ ev.r < 0 /\ pc = "exit"

\* C9: whatever the closing hook call returns, after done authorize goes to
\* the next authorization (or returns, after the last one) and after failed
\* the action fails.
C9_CloseIgnored ==
    /\ (ev.kind = "hook" /\ ev.method = "done") =>
          /\ ev.att.poll = << HTTP_OK, "valid" >>
          /\ CASE AuthLoop(order, ev.i + 1) = "auth_fetch" ->
                     pc = "auth_fetch" /\ i = ev.i + 1
               [] AuthLoop(order, ev.i + 1) = "order_poll_ready" ->
                     pc = "order_poll_ready"
               [] OTHER -> pc = "exit" /\ ret = EXIT_FAILURE
    /\ (ev.kind = "hook" /\ ev.method = "failed") =>
          (pc = "exit" /\ ret = EXIT_FAILURE)

\* Hook done could not be run and authorize goes to the next authorization.
C9_DoneFailedToRun ==
    ev.kind = "hook" /\ ev.method = "done" /\ ev.r < 0 /\ pc = "auth_fetch"

\* C10: action issue exits 0 without any HTTP request exactly when
\* cert_valid accepted the certificate at hand and -f was not given; when
\* cert_valid rejected it or -f was given, acme_bootstrap is called next.
C10_SkipIffValid ==
    action = "issue" =>
        /\ (pc = "exit" /\ ret = EXIT_SUCCESS /\ ~wire.http) <=>
              (ev.kind = "main" /\ ev.checked /\ ev.valid /\ ~ev.force)
        /\ (ev.kind = "main" /\ ev.checked /\ (~ev.valid \/ ev.force)) =>
              (pc = "bootstrap" /\ ~wire.http)

\* -f was given, the certificate at hand is valid, and the flow starts.
C10_Forced ==
    /\ action = "issue" /\ ev.kind = "main" /\ ev.checked
    /\ ev.valid /\ ev.force /\ pc = "bootstrap"

\* C11: in action new, a lookup POST answered 200 ends the run at once with
\* a non-zero exit; the creation POST is only ever made after a lookup that
\* was not answered 200.
C11_ExistingAccountFatal ==
    action = "new" =>
        /\ (ev.kind = "post" /\ ev.step = "account_new" /\ ev.code = HTTP_OK) =>
              (pc = "exit" /\ ret = EXIT_FAILURE /\ ~ENABLED Next)
        /\ (ev.kind = "post" /\ ev.step = "account_create") =>
              wire.lookup.code # HTTP_OK
        /\ pc \in {"terms_prompt", "account_create"} => wire.lookup.code # HTTP_OK

\* The lookup found a valid account with its Location and the run is over.
C11_AccountExists ==
    /\ action = "new" /\ pc = "exit"
    /\ ev.kind = "post" /\ ev.step = "account_new" /\ ev.code = HTTP_OK
    /\ ev.ans.status = "valid" /\ ev.ans.location = URL_ACCOUNT

\* C12: action new exits 0 exactly when the lookup POST was answered 400
\* with the accountDoesNotExist problem document and the creation POST was
\* answered 201 with status valid, no error document and a Location header,
\* which is then a->kid; any other status code of either POST is fatal.
C12_NewSucceedsIff ==
    action = "new" =>
        /\ (pc = "exit" /\ ret = EXIT_SUCCESS) <=>
              /\ ev.kind = "post" /\ ev.step = "account_create"
              /\ wire.lookup.code = HTTP_BAD_REQUEST
              /\ wire.lookup.ctype = TYPE_PROBLEM
              /\ wire.lookup.ptype = NO_ACCOUNT
              /\ ev.ans.code = HTTP_CREATED
              /\ ev.ans.status = "valid"
              /\ ~ev.ans.error
              /\ ev.ans.location # NULL
        /\ (pc = "exit" /\ ret = EXIT_SUCCESS) => kid = ev.ans.location
        /\ (ev.kind = "post" /\ ev.step = "account_new" /\ ev.code # HTTP_BAD_REQUEST) =>
              (pc = "exit" /\ ret = EXIT_FAILURE)
        /\ (ev.kind = "post" /\ ev.step = "account_create" /\ ev.code # HTTP_CREATED) =>
              (pc = "exit" /\ ret = EXIT_FAILURE)

\* Action new has created the account and exited 0.
C12_Created ==
    action = "new" /\ pc = "exit" /\ ret = EXIT_SUCCESS /\ kid = URL_ACCOUNT

\* C13: in action new with terms of service in the directory, account_new
\* gets to the creation POST only when -y was given or the operator has just
\* answered y; any other answer ends the run, non-zero, before that POST.
C13_TermsAgreed ==
    /\ [](action = "new" =>
            /\ pc = "account_create" =>
                  \/ json_find_string(dir, "termsOfService") = NULL
                  \/ yes
                  \/ ev.kind = "terms" /\ ev.answer = "y"
            /\ (ev.kind = "terms" /\ ev.answer # "y") =>
                  (pc = "exit" /\ ret = EXIT_FAILURE /\ ~ENABLED Next))
    /\ [][(ev'.kind = "post" /\ ev'.step = "account_create") =>
            /\ pc = "account_create"
            /\ \/ json_find_string(dir, "termsOfService") = NULL
               \/ yes
               \/ ev.kind = "terms" /\ ev.answer = "y"]_vars

\* The operator agreed to the terms and the creation POST went out.
C13_AgreedThenCreated ==
    /\ action = "new" /\ ~yes /\ json_find_string(dir, "termsOfService") # NULL
    /\ ev.kind = "post" /\ ev.step = "account_create" /\ ev.sent

\* C14: in actions update, deactivate, issue and revoke, whatever follows
\* account_retrieve (every POST to the account URL, newOrder, revokeCert and
\* the URLs after them) happens only after the lookup was answered 200 with
\* account status valid and a Location header, which is a->kid; any other
\* lookup answer ends the run at once with a non-zero exit.
C14_LookupGates ==
    action # "new" =>
        /\ (\/ ev.kind = "post" /\ ev.step # "account_retrieve"
            \/ pc \notin {"main", "bootstrap", "bootstrap_nonce",
                          "account_retrieve", "exit"}) =>
              /\ wire.lookup.code = HTTP_OK
              /\ wire.lookup.status = "valid"
              /\ wire.lookup.location # NULL
              /\ kid = wire.lookup.location
        /\ (/\ ev.kind = "post" /\ ev.step = "account_retrieve"
            /\ ~(/\ ev.ans.code = HTTP_OK /\ ev.ans.status = "valid"
                 /\ ev.ans.location # NULL)) =>
              (pc = "exit" /\ ret = EXIT_FAILURE /\ ~ENABLED Next)

\* Action deactivate has sent its POST to the account URL.
C14_AccountUrlPosted ==
    /\ action = "deactivate" /\ ev.kind = "post" /\ ev.step = "account_deactivate"
    /\ ev.sent /\ ev.url = URL_ACCOUNT

\* C15: for an account whose contact member is absent or an array of
\* strings beginning with mailto:, account_update calls acme_post for the
\* account URL exactly when the array diverges from the address given (an
\* address and no contacts; an address and some contact that differs from
\* it, case ignored; no address and some contact); when they agree it sends
\* nothing and the action exits 0.
C15_UpdateIffDiverges ==
    (action = "update" /\ ev.kind \in {"post", "local"} /\ ev.step = "account_update") =>
        LET cs == account.contact
            given == email # NULL /\ email # EMPTY
            wellformed ==
                /\ cs.present => cs.array
                /\ \A k \in 1..Len(cs.values) : cs.values[k].string /\ cs.values[k].mailto
            agrees(addr) ==
                addr = email \/ (email = EMAIL /\ addr = "A@EXAMPLE.COM")
            diverges ==
                IF given
                THEN Len(cs.values) = 0 \/ \E k \in 1..Len(cs.values) : ~agrees(cs.values[k].addr)
                ELSE Len(cs.values) > 0
        IN  wellformed =>
              /\ ev.kind = "post" <=> diverges
              /\ ev.kind = "post" => ev.url = kid
              /\ ~diverges => (pc = "exit" /\ ret = EXIT_SUCCESS /\ ~wire.refused)

\* The one contact is the address given in other letter case: nothing is
\* sent and update exits 0.
C15_AgreeIgnoringCase ==
    /\ action = "update" /\ email = EMAIL
    /\ ev.kind = "local" /\ ev.step = "account_update"
    /\ account.contact.array /\ Len(account.contact.values) = 1
    /\ account.contact.values[1].addr = "A@EXAMPLE.COM"
    /\ pc = "exit" /\ ret = EXIT_SUCCESS

\* C16 amended: a contact member that is no array is always fatal; an
\* element that is no string beginning with mailto: is fatal, with no update
\* POST, only when an address was given.  With no address the elements are
\* not looked at: a non-empty array gets the clearing POST.
C16_MalformedWhenCompared ==
    (action = "update" /\ ev.kind \in {"post", "local"} /\ ev.step = "account_update") =>
        LET cs == account.contact
            given == email # NULL /\ email # EMPTY
            badelement ==
                \E k \in 1..Len(cs.values) : ~cs.values[k].string \/ ~cs.values[k].mailto
        IN  /\ (cs.present /\ ~cs.array) =>
                  (ev.kind = "local" /\ pc = "exit" /\ ret = EXIT_FAILURE)
            /\ (given /\ badelement) =>
                  (ev.kind = "local" /\ pc = "exit" /\ ret = EXIT_FAILURE)
            /\ (~given /\ badelement) => (ev.kind = "post" /\ ev.url = kid)

\* No address was given, the account has a contact that is no mailto:
\* string, and the clearing POST went out.
C16_ClearedUnparsed ==
    /\ action = "update" /\ email = NULL
    /\ ev.kind = "post" /\ ev.step = "account_update" /\ ev.sent
    /\ \E k \in 1..Len(account.contact.values) : ~account.contact.values[k].mailto

\* C16 as stated: whatever address is requested, none included, an element
\* that is no string beginning with mailto: fails the action with no POST.
C16_MalformedAlwaysFatal ==
    (action = "update" /\ ev.kind \in {"post", "local"} /\ ev.step = "account_update") =>
        ((\E k \in 1..Len(account.contact.values) :
              ~account.contact.values[k].string \/ ~account.contact.values[k].mailto)
          => (ev.kind = "local" /\ pc = "exit" /\ ret = EXIT_FAILURE))

\* C17: acme_bootstrap succeeds only when the directory GET answers 200 with
\* a parsed JSON body that is no error document and holds newNonce, and the
\* newNonce GET that follows answers 204.  Any other status, and a problem
\* document (a parsed body under application/problem+json) on either GET,
\* ends the run with a non-zero code before any signed POST: nothing more
\* happens after it.
C17_BootstrapGates ==
    (ev.kind = "get" /\ ev.step \in {"bootstrap", "bootstrap_nonce"}) =>
        LET good == IF ev.step = "bootstrap" THEN HTTP_OK ELSE HTTP_NO_CONTENT
            problem == ev.ans.parsed /\ ev.ans.ctype = TYPE_PROBLEM
        IN  /\ pc \in {"exit", "bootstrap_nonce", "account_new", "account_retrieve"}
            /\ pc = "bootstrap_nonce" =>
                  /\ ev.step = "bootstrap"
                  /\ ev.ans.code = HTTP_OK /\ ev.ans.parsed /\ ~problem
                  /\ ~ev.ans.error
                  /\ ~dir.null /\ dir.newNonce # NULL
            /\ pc \in {"account_new", "account_retrieve"} =>
                  /\ ev.step = "bootstrap_nonce"
                  /\ ev.url = dir.newNonce
                  /\ ev.ans.code = HTTP_NO_CONTENT /\ ~problem
            /\ (ev.ans.code # good \/ problem) =>
                  /\ pc = "exit" /\ ret # EXIT_SUCCESS
                  /\ ~ENABLED Next
            /\ pc = "exit" => ret # EXIT_SUCCESS /\ ~ENABLED Next

\* The newNonce GET was answered 204 with a problem document and the run
\* ended there.
C17_ProblemOn204 ==
    /\ ev.kind = "get" /\ ev.step = "bootstrap_nonce"
    /\ ev.ans.code = HTTP_NO_CONTENT
    /\ ev.ans.parsed /\ ev.ans.ctype = TYPE_PROBLEM
    /\ pc = "exit" /\ ret = EXIT_FAILURE
\* C18 as stated: validate_domain_str accepts a name if and only if every
\* character apart from an optional prefix "*." is a letter, a digit or one
\* of . _ -, the name does not begin with a dot, the asterisk occurs nowhere
\* but in that prefix, and some character of the name is none of . _ -.
C18_AcceptIffNonSeparator ==
    (ev.kind = "names" /\ Len(ev.names) = 1) =>
        LET s == ev.names[1]
            wild == Len(s) >= 2 /\ s[1] = "*" /\ s[2] = "."
            from == IF wild THEN 3 ELSE 1
        IN  ev.ok <=>
              /\ \A k \in from..Len(s) :
                    s[k] \in { "a", "Z", "0", ".", "_", "-" }
              /\ Len(s) > 0 => s[1] # "."
              /\ \E k \in 1..Len(s) : s[k] \notin { ".", "_", "-" }

\* C18, what the code does: the last condition is only that the name is not
\* empty.  The separators count towards len as letters and digits do, so a
\* name made of separators alone is accepted.
C18_AcceptIffNonEmpty ==
    (ev.kind = "names" /\ Len(ev.names) = 1) =>
        LET s == ev.names[1]
            wild == Len(s) >= 2 /\ s[1] = "*" /\ s[2] = "."
            from == IF wild THEN 3 ELSE 1
        IN  /\ ev.ok <=>
                  /\ \A k \in from..Len(s) :
                        s[k] \in { "a", "Z", "0", ".", "_", "-" }
                  /\ Len(s) > 0 => s[1] # "."
                  /\ Len(s) > 0
            /\ ev.ok <=> pc = "main"
            /\ ~ev.ok <=> (pc = "exit" /\ ret = EXIT_FAILURE)

\* The name "-" was accepted.
C18_HyphenAccepted ==
    /\ ev.kind = "names" /\ ev.names = << << "-" >> >>
    /\ ev.ok /\ pc = "main"
\* C19: whenever a challenge is shown to the hook (begin, done, failed) or to
\* the operator, the key authorization shown with it is the hash
\* base64url(SHA-256(token "." thumbprint)) when the challenge's type is
\* dns-01 and the plain text token "." thumbprint for any other type; token
\* and type are those of the challenge shown and the thumbprint is the one
\* value computed from the account key before the first authorization.
C19_KeyAuthorization ==
    ev.kind \in {"hook", "prompt"} =>
        LET type == ev.args[1]
            token == ev.args[3]
            key_auth == ev.args[4]
            text == token \o "." \o THUMBPRINT
        IN  /\ type = TypeAt(ev.j)
            /\ token = Token(ev.i, ev.j)
            /\ type = "dns-01" => key_auth = "base64url(sha256(" \o text \o "))"
            /\ type # "dns-01" => key_auth = text

\* A dns-01 challenge was handed to the hook with the hash of its token
\* and the thumbprint.
C19_DnsHashed ==
    /\ ev.kind = "hook" /\ ev.method = "begin"
    /\ ev.args[1] = "dns-01"
    /\ ev.args[4] = "base64url(sha256(" \o ev.args[3] \o "." \o THUMBPRINT \o "))"
\* C20: the process exits with code 0 if and only if the action chosen
\* succeeded: its last step succeeded (the account was created; the contacts
\* agreed or the update was accepted; the deactivation or the revocation was
\* accepted; the certificate was downloaded and saved) or issue was skipped
\* for a certificate still valid.  Until exit the code stays EXIT_FAILURE,
\* and a request that got no answer, a server error or an error document
\* ends the run with a non-zero code, at once or after the hook was told
\* that the challenge failed; the one exception is the 400 that answers the
\* account lookup of new.
C20_ExitCode ==
    LET good(step, code) ==
            /\ ev.kind = "post" /\ ev.step = step
            /\ ev.sent /\ ev.ans.code = code /\ ~ev.ans.error
        succeeded ==
            CASE action = "new" ->
                   /\ good("account_create", HTTP_CREATED)
                   /\ ev.ans.status = "valid" /\ ev.ans.location # NULL
              [] action = "update" ->
                   \/ good("account_update", HTTP_OK)
                   \/ /\ ev.kind = "local" /\ ev.step = "account_update"
                      /\ ContactVerdict(account.contact, email) = "same"
              [] action = "deactivate" -> good("account_deactivate", HTTP_OK)
              [] action = "revoke" -> good("cert_revoke", HTTP_OK)
              [] action = "issue" ->
                   \/ good("cert_get", HTTP_OK) /\ ev.saved
                   \/ ev.kind = "main" /\ ev.checked /\ ev.valid /\ ~ev.force
        failed ==
            /\ ev.kind \in {"get", "post"}
            /\ \/ ~ev.sent
               \/ ev.ans.code \in {0, HTTP_ERROR}
               \/ ev.ans.error
            /\ ~(ev.step = "account_new" /\ ev.ans.code = HTTP_BAD_REQUEST)
    IN  /\ pc # "exit" => ret = EXIT_FAILURE
        /\ pc = "exit" => ret \in {EXIT_SUCCESS, EXIT_FAILURE}
        /\ pc = "exit" => (ret = EXIT_SUCCESS <=> succeeded)
        /\ failed => \/ pc = "exit" /\ ret # EXIT_SUCCESS
                     \/ pc = "hook_close" /\ ~chlg_done
        /\ (ev.kind = "hook" /\ ev.method = "failed") =>
              pc = "exit" /\ ret # EXIT_SUCCESS

\* The certificate was downloaded but could not be saved, and the run ended
\* with a non-zero code.
C20_SaveFailed ==
    /\ pc = "exit" /\ ret = EXIT_FAILURE
    /\ ev.kind = "post" /\ ev.step = "cert_get"
    /\ ev.ans.code = HTTP_OK /\ ~ev.ans.error /\ ~ev.saved
\* C21: no request is retried.  After a request that got no answer, or an
\* answer whose status is not the one the step expects (a 400 badNonce
\* problem document on a signed POST included), no step that could follow
\* is an HTTP request: the run is over with a non-zero code, or the hook is
\* told that the challenge failed and the run is over after that.  The one
\* 4xx answer the run survives is 400 accountDoesNotExist to the lookup of
\* action new.
C21_NoRetry ==
    LET expected ==
            CASE ev.step = "bootstrap_nonce" -> HTTP_NO_CONTENT
              [] ev.step \in {"account_create", "new_order"} -> HTTP_CREATED
              [] ev.step = "account_new" -> HTTP_BAD_REQUEST
              [] OTHER -> HTTP_OK
        no_account ==
            /\ action = "new" /\ ev.step = "account_new"
            /\ ev.ans.code = HTTP_BAD_REQUEST /\ ev.ans.ptype = NO_ACCOUNT
        over == pc = "exit" /\ ret # EXIT_SUCCESS /\ ~ENABLED Next
        closing == /\ pc = "hook_close" /\ ~chlg_done
                   /\ ~ENABLED (Next /\ ev'.kind \in {"get", "post"})
    IN  /\ (ev.kind \in {"get", "post"} /\ (~ev.sent \/ ev.ans.code # expected)) =>
              (over \/ closing)
        /\ (ev.kind \in {"get", "post"} /\ ev.ans.code \in 400..499 /\ ~no_account) =>
              (over \/ closing)
        /\ (ev.kind = "hook" /\ ev.method = "failed") => over

\* A challenge poll was answered 400 with a badNonce problem document and
\* the run is about to tell the hook that the challenge failed.
C21_BadNonceNotRetried ==
    /\ ev.kind = "post" /\ ev.step = "chlg_poll" /\ ev.sent
    /\ ev.ans.code = HTTP_BAD_REQUEST /\ ev.ans.ptype = BAD_NONCE
    /\ pc = "hook_close" /\ ~chlg_done
\* C22: directories and keys are created only as follows.  With -n nothing
\* is created.  Without -n only action new creates confdir, private/ and
\* the account key, and only action issue creates private/<domain>/,
\* <domain>/ and the domain key.  Nothing that exists is changed.  An action
\* other than new that finds confdir, private/ or the account key missing
\* fails and leaves the filesystem as it was, and so does any action under
\* -n that finds something it needs missing.  After main's checks no step
\* creates a directory or a key.
C22_CreationRules ==
    /\ [](ev.kind = "main" =>
            LET account_paths == { "confdir", "keydir", "key" }
                domain_paths == { "dkeydir", "certdir", "dkey" }
                needed == IF action = "issue"
                          THEN account_paths \cup domain_paths
                          ELSE account_paths
                missing(ps) == \E q \in ps : ev.fs0[q] = "absent"
                created == { q \in Paths : ev.fs0[q] = "absent" /\ fs[q] # "absent" }
                failed == pc = "exit" /\ ret # EXIT_SUCCESS
            IN  /\ \A q \in Paths \ created : fs[q] = ev.fs0[q]
                /\ \A q \in created :
                      fs[q] = IF q \in { "key", "dkey" } THEN "file" ELSE "dir"
                /\ ev.never => created = {}
                /\ action = "new" => created \subseteq account_paths
                /\ action = "issue" => created \subseteq domain_paths
                /\ action \notin { "new", "issue" } => created = {}
                /\ (action # "new" /\ missing(account_paths)) =>
                      failed /\ fs = ev.fs0
                /\ (ev.never /\ missing(needed)) => failed /\ fs = ev.fs0)
    /\ [][fs' # fs => pc = "main"]_vars

\* Action issue without -n found no domain key and generated one.
C22_DomainKeyCreated ==
    /\ ev.kind = "main" /\ action = "issue" /\ ~ev.never
    /\ ev.fs0["dkey"] = "absent" /\ fs["dkey"] = "file"
\* C23: the authorizations are taken in the order of the array, one at a
\* time.  The first is fetched right after newOrder; authorization i + 1 is
\* fetched only right after authorization i was fetched with status valid
\* (no hook call and no challenge POST in between) or right after one of
\* its challenges was polled to valid (with a hook: after the hook was told
\* done).  A fetched authorization that is neither valid nor pending ends
\* the run with a non-zero code.
C23_InArrayOrder ==
    LET urls == order.authorizations.values
        fetched == ev.kind = "post" /\ ev.step = "auth_fetch"
        fetched_valid ==
            fetched /\ ev.ans.code = HTTP_OK /\ ev.ans.status = "valid"
        polled_valid(k) ==
            /\ ev.kind = "post" /\ ev.step = "chlg_poll" /\ hook = NULL
            /\ ev.ans.code = HTTP_OK /\ ev.ans.status = "valid"
            /\ \E c \in 0..MaxChlgs : ev.url = ChlgUrl(k, c)
        told_done(k) ==
            /\ ev.kind = "hook" /\ ev.method = "done" /\ ev.i = k
            /\ ev.att.poll = << HTTP_OK, "valid" >>
    IN  /\ pc = "auth_fetch" =>
              /\ i < Len(urls)
              /\ i = 0 => ev.kind = "post" /\ ev.step = "new_order"
              /\ i > 0 => \/ fetched_valid /\ ev.url = urls[i]
                          \/ polled_valid(i - 1)
                          \/ told_done(i - 1)
        /\ (fetched /\ pc \notin {"exit", "auth_fetch", "order_poll_ready"}) =>
              /\ ev.url = urls[i + 1]
              /\ ev.ans.code = HTTP_OK /\ ev.ans.status = "pending"
              /\ pc = "present"
        /\ fetched_valid => pc \in {"auth_fetch", "order_poll_ready", "exit"}
        /\ (fetched /\ ev.ans.status \notin {"valid", "pending"}) =>
              pc = "exit" /\ ret # EXIT_SUCCESS

\* The second authorization is about to be fetched, the hook having been
\* told that a challenge of the first was done.
C23_SecondAfterDone ==
    /\ pc = "auth_fetch" /\ i = 1
    /\ ev.kind = "hook" /\ ev.method = "done" /\ ev.i = 0
\* C24: a pending authorization none of whose challenges succeeds fails the
\* action.  When the fetched authorization lists no pending challenge, and
\* when the hook or the operator declines a challenge after which no pending
\* one is left, the run ends with a non-zero code and nothing follows (no
\* finalize POST).  Only pending challenges are shown or POSTed: the first
\* pending one after the fetch, the next pending one after a decline.
C24_NoChallengeSucceeds ==
    LET fetched_pending ==
            /\ ev.kind = "post" /\ ev.step = "auth_fetch"
            /\ ev.ans.code = HTTP_OK /\ ev.ans.status = "pending"
        declined_now ==
            \/ ev.kind = "hook" /\ ev.method = "begin" /\ ev.r > 0
            \/ ev.kind = "prompt" /\ ev.answer # "y"
        least(S) == CHOOSE c \in S : \A d \in S : c <= d
        over == pc = "exit" /\ ret # EXIT_SUCCESS /\ ~ENABLED Next
        at_hand == auth.challenges.values[j + 1]
    IN  /\ (fetched_pending /\ ev.ans.pending = {}) => over
        /\ (declined_now /\ ev.later = {}) => over
        /\ fetched_pending => over \/ (pc = "present" /\ j = least(ev.ans.pending))
        /\ declined_now => over \/ (pc = "present" /\ j = least(ev.later))
        /\ pc \in {"present", "chlg_trigger", "chlg_poll", "hook_close"} =>
              at_hand.status = "pending"
        /\ (ev.kind = "post" /\ ev.step \in {"chlg_trigger", "chlg_poll"}
               /\ pc \in {"chlg_poll", "hook_close"}) =>
              ev.url = at_hand.url

\* The hook declined the last pending challenge of an authorization that
\* had two, and the run ended.
C24_AllDeclined ==
    /\ ev.kind = "hook" /\ ev.method = "begin" /\ ev.r > 0
    /\ ev.j = 1 /\ ev.later = {}
    /\ Cardinality(declined) = 2
    /\ pc = "exit" /\ ret = EXIT_FAILURE
\* C25: the order statuses accepted in each phase.  The newOrder answer must
\* be 201 with status pending or ready, anything else is fatal.  A poll
\* before finalize answered 200: pending polls again, ready goes to
\* finalize, any other status (valid, processing, invalid, none) is fatal.
\* A poll after finalize answered 200: processing polls again, valid goes
\* to the certificate, any other status (ready, pending, invalid, none) is
\* fatal.
C25_OrderStatuses ==
    LET fatal == pc = "exit" /\ ret # EXIT_SUCCESS
        polled(step) ==
            /\ ev.kind = "post" /\ ev.step = step
            /\ ev.sent /\ ev.ans.code = HTTP_OK
    IN  /\ (ev.kind = "post" /\ ev.step = "new_order") =>
              \/ fatal
              \/ /\ ev.ans.code = HTTP_CREATED
                 /\ ev.ans.status \in {"pending", "ready"}
        /\ polled("order_poll_ready") =>
              CASE ev.ans.status = "pending" -> pc = "order_poll_ready" /\ polls > 0
                [] ev.ans.status = "ready" -> pc = "finalize"
                [] OTHER -> fatal
        /\ polled("order_poll_valid") =>
              CASE ev.ans.status = "processing" -> pc = "order_poll_valid" /\ polls > 0
                [] ev.ans.status = "valid" -> pc = "cert_get"
                [] OTHER -> fatal

\* A poll after finalize was answered 200 with status ready and the run
\* ended with a non-zero code.
C25_ReadyAfterFinalize ==
    /\ ev.kind = "post" /\ ev.step = "order_poll_valid"
    /\ ev.ans.code = HTTP_OK /\ ev.ans.status = "ready"
    /\ pc = "exit" /\ ret = EXIT_FAILURE
\* C26: every run ends, given that the hook and the operator answer and
\* that the server stops answering a poll with 200 pending / processing at
\* some point.  The client has no ceiling of its own: whatever the number of
\* polls so far, a poll answered 200 with pending or processing (challenge),
\* pending (order before finalize) or processing (order after finalize) is
\* followed by another round of the same loop.
C26_Terminates ==
    /\ <>(pc = "exit")
    /\ [](LET again(step, statuses) ==
                 /\ ev.kind = "post" /\ ev.step = step /\ ev.sent
                 /\ ev.ans.code = HTTP_OK /\ ev.ans.status \in statuses
          IN  /\ again("chlg_poll", {"pending", "processing"}) =>
                    pc = "chlg_poll" /\ polls \in 1..MaxPolls
              /\ again("order_poll_ready", {"pending"}) =>
                    pc = "order_poll_ready" /\ polls \in 1..MaxPolls
              /\ again("order_poll_valid", {"processing"}) =>
                    pc = "order_poll_valid" /\ polls \in 1..MaxPolls)

\* The order was polled after finalize as often as the server answered
\* processing, and the loop is in its next round.
C26_StillPolling ==
    /\ pc = "order_poll_valid" /\ polls = MaxPolls
    /\ ev.kind = "post" /\ ev.step = "order_poll_valid"
    /\ ev.ans.status = "processing"
\* C27: no nonce goes out in two POSTs of one run, the server issuing every
\* nonce once.  A POST that is sent carries the Replay-Nonce value of the
\* last response received, and that value has not gone out in a POST
\* before.  When a POST went out and no response came back (the stored
\* nonce stays) or the last response had no Replay-Nonce (the stored nonce
\* is NULL), no step that could follow sends a POST.
C27_NonceUsedOnce ==
    /\ (ev.kind = "post" /\ ev.sent) =>
          /\ ev.nonce # NULL
          /\ ev.nonce = ev.last
          /\ ~ev.stale
    /\ (wire.spent \/ (wire.http /\ nonce = NULL)) =>
          ~ENABLED (Next /\ ev'.kind = "post" /\ ev'.sent)
    /\ wire.spent => pc \in {"exit", "hook_close"}

\* A challenge POST went out with a nonce, no response came back, and the
\* nonce is still stored while the hook is about to be told.
C27_NonceKeptAfterFailure ==
    /\ ev.kind = "post" /\ ev.sent /\ ev.code = 0
    /\ wire.spent /\ nonce = ev.nonce /\ nonce # NULL
    /\ pc = "hook_close"
\* C28: an accepted challenge attempt that fails ends the issue action.  The
\* attempt fails when the trigger POST is not answered 200, when a poll is
\* not answered 200, or when a poll reports a status other than valid,
\* pending or processing.  With a hook the one step that follows is the
\* hook call failed, and the run ends with a non-zero code right after it;
\* without a hook the run ends at once.  Nothing else follows: no other
\* challenge is shown, no authorization fetched, no finalize POST.
C28_FailedAttemptAborts ==
    LET over == pc = "exit" /\ ret # EXIT_SUCCESS /\ ~ENABLED Next
        attempt_failed ==
            /\ ev.kind = "post"
            /\ \/ ev.step = "chlg_trigger" /\ ev.code # HTTP_OK
               \/ ev.step = "chlg_poll" /\ ev.code # HTTP_OK
               \/ /\ ev.step = "chlg_poll"
                  /\ ev.ans.status \notin {"valid", "pending", "processing"}
    IN  /\ (attempt_failed /\ hook = NULL) => over
        /\ (attempt_failed /\ hook # NULL) =>
              /\ pc = "hook_close" /\ ~chlg_done
              /\ ENABLED Next
              /\ ~ENABLED (Next /\ ~(ev'.kind = "hook" /\ ev'.method = "failed"))
        /\ (ev.kind = "hook" /\ ev.method = "failed") =>
              /\ over
              /\ \/ ev.att.trigger # HTTP_OK
                 \/ ev.att.poll[1] # HTTP_OK
                 \/ ev.att.poll[2] \notin {"valid", "pending", "processing"}

\* The trigger POST of an accepted challenge was answered 400; the hook was
\* told failed and the run ended, although the authorization listed
\* another pending challenge.
C28_TriggerRejected ==
    /\ ev.kind = "hook" /\ ev.method = "failed"
    /\ ev.att.trigger = HTTP_BAD_REQUEST
    /\ ev.later # {}
    /\ pc = "exit" /\ ret = EXIT_FAILURE
\* C29: when the answer to newOrder is 201 with status ready (and has its
\* Location), authorize is not run and the order is not polled before
\* finalize: the step that follows is the finalize step, no authorization
\* having been fetched and no hook attempt opened, and its POST goes to the
\* finalize URL of the newOrder answer.
C29_ReadyGoesToFinalize ==
    /\ (/\ ev.kind = "post" /\ ev.step = "new_order"
        /\ ev.ans.code = HTTP_CREATED /\ ev.ans.status = "ready"
        /\ ev.ans.location # NULL) =>
          /\ pc = "finalize"
          /\ obs = [ status |-> "ready", via |-> "newOrder" ]
          /\ order.status = "ready"
          /\ auth = NoJson /\ i = 0 /\ ~attempt.open /\ declined = {}
          /\ ~ENABLED (Next /\ ~(ev'.kind \in {"post", "local"} /\ ev'.step = "finalize"))
    /\ (ev.kind = "post" /\ ev.step = "finalize" /\ obs.via = "newOrder") =>
          /\ ev.url = order.finalize
          /\ order.status = "ready" /\ obs.status = "ready"
          /\ auth = NoJson /\ i = 0 /\ ~attempt.open /\ declined = {}

\* The finalize POST went out right after a newOrder answered ready.
C29_FinalizeAfterNewOrder ==
    /\ ev.kind = "post" /\ ev.step = "finalize" /\ ev.sent
    /\ ev.url = URL_FINALIZE
    /\ obs = [ status |-> "ready", via |-> "newOrder" ]
\* C30: cert.pem is rewritten only by the step that fetches the certificate,
\* after the order was polled valid behind finalize and the POST of the
\* certificate URL was answered 200 without an error document; cert_save is
\* called exactly for such an answer.  A run of issue that fails leaves
\* cert.pem as it was: either cert_save was not called, or it was called and
\* failed.  A run that skips the renewal makes no request, exits 0 and leaves
\* the old cert.pem in place.
C30_SavedOnlyWhenFetched ==
    /\ cert = "new" =>
          /\ pc = "exit" /\ ret = EXIT_SUCCESS /\ action = "issue"
          /\ ev.kind = "post" /\ ev.step = "cert_get" /\ ev.called /\ ev.saved
    /\ (ev.kind = "post" /\ ev.step = "cert_get") =>
          /\ ev.called <=> (ev.ans.code = HTTP_OK /\ ~ev.ans.error)
          /\ ev.called => ev.sent /\ obs = [ status |-> "valid", via |-> "poll_finalized" ]
          /\ ev.saved => ev.called /\ cert = "new"
          /\ pc = "exit" /\ (ret = EXIT_SUCCESS <=> ev.saved)
    /\ (pc = "exit" /\ ret # EXIT_SUCCESS) => cert # "new"
    /\ (ev.kind = "main" /\ ev.checked /\ ev.valid /\ ~ev.force) =>
          /\ pc = "exit" /\ ret = EXIT_SUCCESS
          /\ cert = "old" /\ ~wire.http

\* The certificate was fetched and saved over an old cert.pem.
C30_OldCertReplaced ==
    /\ cert = "new" /\ ev.kind = "post" /\ ev.step = "cert_get" /\ ev.saved
    /\ fs["certdir"] = "dir" /\ pc = "exit" /\ ret = EXIT_SUCCESS

\* The statement as the claim has it: no failing run of issue calls cert_save.
C30_NeverCalledWhenFailing ==
    (pc = "exit" /\ ret # EXIT_SUCCESS /\ ev.kind = "post" /\ ev.step = "cert_get") =>
        ~ev.called
====
